---- MODULE Spec2Model ----
(***************************************************************************)
(* Model of the rh mesh configuration builder (rh/core.py), of the mesh    *)
(* validator (rh/validation.py, rh/utils.py) and of the propagation engine *)
(* the builder emits (class MeshPropagator, generated by                   *)
(* rh/generators/html.py).                                                 *)
(*                                                                         *)
(* Numbers are JavaScript numbers restricted to decimals with two          *)
(* fractional digits; Num(n) is the number n/100, so Num(100) is 1 and     *)
(* Num(27315) is 273.15.  Undefined and NaN are the two non-numeric        *)
(* values the engine can meet: a missing key reads as undefined and        *)
(* arithmetic on undefined yields NaN.                                     *)
(***************************************************************************)
EXTENDS Integers, Sequences, FiniteSets, TLC

VARIABLES
    mesh,             \* forward mesh: ordered entries [name, args]
    functions,        \* funcName -> kind of the bound computation
    initial_values,   \* name -> initial value (formConfig.formData)
    reverseMesh,      \* dep -> sequence of funcNames
    formData,         \* the snapshot handed to propagate
    changedVariable,  \* propagate's first argument
    newValue,         \* propagate's second argument
    newFormData,      \* propagate's working copy, and its return value
    iter,             \* loop counter of propagate
    anyChange,        \* the round's change flag
    pos,              \* index into Object.keys(this.mesh) within a round
    pc,               \* "idle" | "loop" | "returned" | "raised"
    rounds,           \* history: passes over the mesh completed in this call
    visited,          \* history: funcNames whose body ran in this round
    calls,            \* history: number of propagate calls made
    prevStable,       \* history: the previous call ended on a no-change round
    mesh_spec,        \* the mesh specification as passed in: a Python value
    functions_spec,   \* the function specification as passed in
    field_overrides,  \* name -> explicit override dict
    config,           \* the dict returned by generate_config
    is_valid,         \* validate_mesh_spec: first component of the result
    errors,           \* validate_mesh_spec: second component of the result
    cycles,           \* the list returned by detect_circular_dependencies
    dfs_calls,        \* history: calls of dfs made by the detection
    levels,           \* the list returned by get_execution_order
    currentFormData,  \* window.currentFormData: the state last rendered
    renders,          \* history: renderForm calls made by the last onChange
    computed,         \* the dict returned by MeshTester.compute
    passes            \* history: passes over the mesh made by compute

\* the state of one propagate call and its history
engineVars == <<formData, changedVariable, newValue, newFormData, iter,
                anyChange, pos, rounds, visited, calls, prevStable>>

\* the inputs of the builder and the configuration it returns
builderVars == <<mesh_spec, functions_spec, field_overrides, config>>

\* the return values of the validation utilities
toolVars == <<is_valid, errors, cycles, dfs_calls, levels>>

\* the page's rendered state and the test engine's return value
pageVars == <<currentFormData, renders, computed, passes>>

vars == <<mesh, functions, initial_values, reverseMesh, pc, engineVars,
          builderVars, toolVars, pageVars>>

(***************************************************************************)
(* Bounds of the model.                                                    *)
(***************************************************************************)
MaxVal == 1      \* edited values range over 0 .. MaxVal
MaxCalls == 2    \* propagate calls per behaviour
MaxChain == 51   \* longest chain var_0 -> ... -> var_N

(***************************************************************************)
(* Values.                                                                 *)
(***************************************************************************)
Num(n) == [t |-> "number", n |-> n]
Undefined == [t |-> "undefined", n |-> 0]
NaN == [t |-> "NaN", n |-> 0]

\* obj[key] on a JavaScript object: a missing key reads as undefined
Get(obj, key) == IF key \in DOMAIN obj THEN obj[key] ELSE Undefined

\* obj[key] = value on a JavaScript object
Put(obj, key, value) == (key :> value) @@ obj

\* a comparison of the operands' types only
StrictNotEqualTypeOnly(x, y) == x.t # y.t

\* x !== y : NaN differs from everything, itself included
StrictNotEqual(x, y) == x.t = "NaN" \/ y.t = "NaN" \/ x # y

(***************************************************************************)
(* The computations bound to derived variables.  A kind stands for the     *)
(* body of one JavaScript function of functions_spec; a call either throws *)
(* or returns a value (Undefined when the body returns nothing).           *)
(***************************************************************************)
Returned(v) == [threw |-> FALSE, value |-> v]
Threw == [threw |-> TRUE, value |-> Undefined]

\* args[0] of a call, undefined when the call has no argument
Arg1(argValues) == IF Len(argValues) >= 1 THEN argValues[1] ELSE Undefined

\* JavaScript arithmetic on one operand x: the number n when x is a number,
\* NaN when x is undefined or NaN
Arith(x, n) == IF x.t = "number" THEN Num(n) ELSE NaN

PlusOne(n) == n + 100
Negate(n) == 0 - n
ToFahrenheit(n) == ((n * 9) \div 5) + 3200
ToKelvin(n) == n + 27315

\* n % 3 in JavaScript: the remainder takes the sign of the dividend
Remainder(n) == IF n >= 0 THEN n % 300 ELSE 0 - ((0 - n) % 300)

\* the operand of if, ?: and !
Truthy(x) == x.t = "number" /\ x.n # 0

CallFunction(kind, argValues) ==
    CASE kind = "inc" ->
            Returned(Arith(Arg1(argValues), PlusOne(Arg1(argValues).n)))
      [] kind = "neg" ->
            Returned(Arith(Arg1(argValues), Negate(Arg1(argValues).n)))
      [] kind = "fahrenheit" ->
            Returned(Arith(Arg1(argValues), ToFahrenheit(Arg1(argValues).n)))
      [] kind = "kelvin" ->
            Returned(Arith(Arg1(argValues), ToKelvin(Arg1(argValues).n)))
      [] kind = "noop" -> Returned(Undefined)
      [] kind = "throws" -> Threw
      [] kind = "choice" ->
            Returned(IF Truthy(Arg1(argValues)) THEN Num(100) ELSE Num(0))
      [] kind = "rem" ->
            Returned(Arith(Arg1(argValues), Remainder(Arg1(argValues).n)))

(***************************************************************************)
(* The forward mesh as an ordered object.                                  *)
(***************************************************************************)
\* Object.keys(mesh)
Keys(m) == [i \in 1..Len(m) |-> m[i].name]

KeySet(m) == {m[i].name : i \in 1..Len(m)}

\* mesh[funcName]
ArgsOf(m, funcName) ==
    LET i == CHOOSE j \in 1..Len(m) : m[j].name = funcName IN m[i].args

\* the elements of a sequence
Range(seq) == {seq[i] : i \in 1..Len(seq)}

(***************************************************************************)
(* Reverse mesh.                                                           *)
(***************************************************************************)
\* an entry that replaces the list of its argument: reverse[arg_name] =
\* [func_name]
RECURSIVE AppendEntryOverwrite(_, _, _, _)
AppendEntryOverwrite(reverse, func_name, arg_names, i) ==
    IF i > Len(arg_names) THEN reverse
    ELSE AppendEntryOverwrite(Put(reverse, arg_names[i], <<func_name>>),
                              func_name, arg_names, i + 1)

\* one entry of the forward mesh: for arg_name in arg_names:
\*     if arg_name not in reverse: reverse[arg_name] = []
\*     reverse[arg_name].append(func_name)
RECURSIVE AppendEntry(_, _, _, _)
AppendEntry(reverse, func_name, arg_names, i) ==
    IF i > Len(arg_names) THEN reverse
    ELSE LET arg_name == arg_names[i] IN
         IF arg_name \notin DOMAIN reverse
         THEN AppendEntry(Put(reverse, arg_name, <<func_name>>),
                          func_name, arg_names, i + 1)
         ELSE AppendEntry(Put(reverse, arg_name,
                              Append(reverse[arg_name], func_name)),
                          func_name, arg_names, i + 1)

\* for func_name, arg_names in mesh.items(): ...   Keys are only ever added
\* to reverse; stating it makes TLC evaluate the dictionary entry by entry
\* instead of nesting one unevaluated update per entry.
RECURSIVE ReverseFrom(_, _, _)
ReverseFrom(reverse, m, i) ==
    IF i > Len(m) THEN reverse
    ELSE LET next == AppendEntry(reverse, m[i].name, m[i].args, 1) IN
         IF DOMAIN reverse \subseteq DOMAIN next
         THEN ReverseFrom(next, m, i + 1)
         ELSE next

EmptyObject == [x \in {} |-> Undefined]

\* the reverse mesh embedded into the page
GenerateAppReverse(m) == ReverseFrom(EmptyObject, m, 1)

(***************************************************************************)
(* MeshPropagator.propagate                                                *)
(***************************************************************************)
\* a cap of ten rounds
maxIterTen == 5 + 5

\* a cap one round too generous
maxIterOffByOne == 50 + 1

maxIter == 50

\* the spread of formData forgotten: {[changedVariable]: newValue}
SpreadOnlyEdit(fd, changed, value) == (changed :> value)

\* {...formData, [changedVariable]: newValue}
SpreadWithEdit(fd, changed, value) == Put(fd, changed, value)

\* newFormData bound to the caller's object itself: the caller sees every
\* write made to it
CallerSeesAliased(fd, nfd) == nfd

\* the caller's object fd after a write that left the working copy as nfd:
\* the spread made newFormData a new object, so fd is as it was
CallerSees(fd, nfd) == fd

\* the arguments read from the caller's snapshot instead of the copy
ArgValuesStale(nfd, args) == [i \in 1..Len(args) |-> Get(formData, args[i])]

\* args.map(arg => newFormData[arg])
ArgValues(nfd, args) == [i \in 1..Len(args) |-> Get(nfd, args[i])]

\* a type test that no function passes
HasFunctionNever(fns, funcName) == FALSE

\* this.functions && typeof this.functions[funcName] === 'function'
HasFunction(fns, funcName) == funcName \in DOMAIN fns

\* a test for undefined that no result passes
IsNoOpNever(r) == FALSE

\* if (result === undefined) continue;
IsNoOp(r) == r = Undefined

\* the guard of the edited variable left out
IsDirectEditNever(funcName, changed) == FALSE

\* if (funcName === changedVariable) continue;
IsDirectEdit(funcName, changed) == funcName = changed

\* the change flag left as it was
AfterWriteForgotten(any) == any

\* anyChange = true;
AfterWrite(any) == TRUE

\* a handler that lets the error escape
CatchErrorRethrow(funcName) == "rethrow"

\* catch (err) { console.error(...) } : the error is logged, the loop goes on
CatchError(funcName) == "continue"

\* fn(...argValues) for the propagator of mesh m and functions fns
OutcomeOf(m, fns, nfd, funcName) ==
    CallFunction(fns[funcName], ArgValues(nfd, ArgsOf(m, funcName)))

\* the body of try { ... } for funcName, for the propagator of m and fns
BodyOf(m, fns, nfd, any, funcName, changed) ==
    LET same == [nfd |-> nfd, anyChange |-> any, threw |-> FALSE] IN
    IF ~HasFunction(fns, funcName) THEN same
    ELSE LET r == OutcomeOf(m, fns, nfd, funcName) IN
         IF r.threw THEN [same EXCEPT !.threw = TRUE]
         ELSE IF IsNoOp(r.value) THEN same
         ELSE IF IsDirectEdit(funcName, changed) THEN same
         ELSE IF StrictNotEqual(Get(nfd, funcName), r.value)
              THEN [nfd |-> Put(nfd, funcName, r.value),
                    anyChange |-> AfterWrite(any), threw |-> FALSE]
              ELSE same

\* the outcome of calling the computation of funcName on the state nfd
Outcome(nfd, funcName) == OutcomeOf(mesh, functions, nfd, funcName)

\* one iteration of the inner loop: the body of try { ... } for funcName
Body(nfd, any, funcName, changed) ==
    BodyOf(mesh, functions, nfd, any, funcName, changed)

\* entry into propagate: the copy, then the first test of the for loop
Call(changed, value, fd) ==
    /\ formData' = CallerSees(fd, SpreadWithEdit(fd, changed, value))
    /\ changedVariable' = changed
    /\ newValue' = value
    /\ newFormData' = SpreadWithEdit(fd, changed, value)
    /\ iter' = 0
    /\ anyChange' = FALSE
    /\ pos' = 1
    /\ rounds' = 0
    /\ visited' = <<>>
    /\ pc' = IF 0 < maxIter THEN "loop" ELSE "returned"
    /\ calls' = calls + 1
    /\ prevStable' = (pc = "returned" /\ ~anyChange)
    /\ UNCHANGED <<mesh, functions, initial_values, reverseMesh, builderVars,
                   toolVars, pageVars>>

\* the names a form can hold
FormNames == KeySet(mesh) \cup DOMAIN reverseMesh \cup DOMAIN initial_values

EditValues == {Num(100 * v) : v \in 0..MaxVal}

\* the first edit of a session: any variable of the form, on the initial data
Propagate ==
    /\ pc = "idle"
    /\ calls < MaxCalls
    /\ \E changed \in FormNames, value \in EditValues :
          Call(changed, value, initial_values)

\* the callback is invoked again on the state it returned, same variable
PropagateAgain ==
    /\ pc = "returned"
    /\ calls < MaxCalls
    /\ Call(changedVariable, Get(newFormData, changedVariable), newFormData)

\* one funcName of the inner for loop
EvalFunc ==
    /\ pc = "loop"
    /\ pos <= Len(mesh)
    /\ LET funcName == Keys(mesh)[pos]
           b == Body(newFormData, anyChange, funcName, changedVariable)
       IN IF b.threw /\ CatchError(funcName) # "continue"
          THEN /\ pc' = "raised"
               /\ UNCHANGED <<formData, newFormData, anyChange, pos, visited>>
          ELSE /\ newFormData' = b.nfd
               /\ formData' = CallerSees(formData, b.nfd)
               /\ anyChange' = b.anyChange
               /\ pos' = pos + 1
               /\ visited' = Append(visited, funcName)
               /\ pc' = "loop"
    /\ UNCHANGED <<mesh, functions, initial_values, reverseMesh,
                   changedVariable, newValue, iter, rounds, calls,
                   prevStable, builderVars, toolVars, pageVars>>

\* end of a pass: if (!anyChange) break; ++iter; iter < maxIter
EndRound ==
    /\ pc = "loop"
    /\ pos > Len(mesh)
    /\ rounds' = rounds + 1
    /\ IF ~anyChange
       THEN /\ pc' = "returned"
            /\ UNCHANGED <<iter, anyChange, pos, visited>>
       ELSE /\ iter' = iter + 1
            /\ IF iter + 1 < maxIter
               THEN /\ anyChange' = FALSE
                    /\ pos' = 1
                    /\ visited' = <<>>
                    /\ pc' = "loop"
               ELSE /\ pc' = "returned"
                    /\ UNCHANGED <<anyChange, pos, visited>>
    /\ UNCHANGED <<mesh, functions, initial_values, reverseMesh, formData,
                   changedVariable, newValue, newFormData, calls,
                   prevStable, builderVars, toolVars, pageVars>>

(***************************************************************************)
(* propagate as one call: what a caller that runs it to completion gets.   *)
(***************************************************************************)
\* for (const funcName of Object.keys(this.mesh)) { ... } from key i on; st
\* holds newFormData, anyChange and whether an error escaped
RECURSIVE ForEachFunc(_, _, _, _, _)
ForEachFunc(m, fns, changed, i, st) ==
    IF i > Len(m) \/ st.raised THEN st
    ELSE LET b == BodyOf(m, fns, st.nfd, st.anyChange, m[i].name, changed) IN
         IF b.threw /\ CatchError(m[i].name) # "continue"
         THEN [st EXCEPT !.raised = TRUE]
         ELSE ForEachFunc(m, fns, changed, i + 1,
                          [nfd |-> b.nfd, anyChange |-> b.anyChange,
                           raised |-> FALSE])

\* for (let iter = n; iter < maxIter; ++iter) { ... } return newFormData;
RECURSIVE ForEachIter(_, _, _, _, _)
ForEachIter(m, fns, changed, nfd, n) ==
    IF ~(n < maxIter)
    THEN [nfd |-> nfd, rounds |-> n, raised |-> FALSE]
    ELSE LET st == ForEachFunc(m, fns, changed, 1,
                               [nfd |-> nfd, anyChange |-> FALSE,
                                raised |-> FALSE])
         IN IF st.raised \/ ~st.anyChange
            THEN [nfd |-> st.nfd, rounds |-> n + 1, raised |-> st.raised]
            ELSE ForEachIter(m, fns, changed, st.nfd, n + 1)

\* propagate(changedVariable, newValue, formData) on the propagator of m
\* and fns: the returned object, the rounds run, whether it raised
PropagateOf(m, fns, changed, value, fd) ==
    ForEachIter(m, fns, changed, SpreadWithEdit(fd, changed, value), 0)

(***************************************************************************)
(* Python values of the builder's inputs: a type name and, for a list or a *)
(* tuple, its items; for a dict, its entries.                              *)
(***************************************************************************)
PyVal(t) == [t |-> t, items |-> <<>>]
PyList(items) == [t |-> "list", items |-> items]
PyDict(entries) == [t |-> "dict", entries |-> entries]
NotADict(t) == [t |-> t, entries |-> <<>>]

\* isinstance(value, cls): bool is a subclass of int
IsInstance(value, cls) == value.t = cls \/ (cls = "int" /\ value.t = "bool")

\* for ... in args: a list or a tuple can be iterated, None cannot
Iterable(entry) == entry.type \in {"list", "tuple"}

\* s.startswith(p)
StartsWith(s, p) == Len(s) >= Len(p) /\ SubSeq(s, 1, Len(p)) = p

\* an update that keeps the values already present
UpdateKeepExisting(d, other) == d @@ other

\* d.update(other)
Update(d, other) == other @@ d

\* sep.join(strs)
RECURSIVE Join(_, _)
Join(strs, sep) ==
    IF strs = <<>> THEN ""
    ELSE IF Len(strs) = 1 THEN strs[1]
    ELSE strs[1] \o sep \o Join(Tail(strs), sep)

\* [str(v) for v in values]
Strs(values) == [i \in 1..Len(values) |-> ToString(values[i])]

(***************************************************************************)
(* MeshBuilder: construction.                                              *)
(***************************************************************************)
\* a parser that accepts every specification
ParseMeshAcceptAll(spec) == TRUE

\* MeshBuilder._parse_mesh: isinstance(mesh_spec, dict), else ValueError
ParseMesh(spec) == spec.t = "dict"

\* MeshBuilder.__post_init__
PostInit ==
    /\ pc = "constructing"
    /\ IF ParseMesh(mesh_spec)
       THEN /\ mesh' = mesh_spec.entries
            /\ pc' = "new"
       ELSE /\ pc' = "raised"
            /\ UNCHANGED mesh
    /\ UNCHANGED <<functions, initial_values, reverseMesh, engineVars,
                   builderVars, toolVars, pageVars>>

(***************************************************************************)
(* MeshBuilder: the JSON schema.                                           *)
(***************************************************************************)
\* the variables of the dependency lists left out
GetAllVariablesNoArgs(m, init, ov) ==
    KeySet(m) \cup DOMAIN init \cup DOMAIN ov

\* MeshBuilder._get_all_variables
GetAllVariables(m, init, ov) ==
    KeySet(m) \cup UNION {Range(m[i].args) : i \in 1..Len(m)}
              \cup DOMAIN init \cup DOMAIN ov

\* variables.update(args) raises TypeError when args cannot be iterated
GetAllVariablesRaises(m) == \E i \in 1..Len(m) : ~Iterable(m[i])

\* the chain tested with the integer class first
ScalarTypeIntFirst(value) ==
    IF IsInstance(value, "int") THEN "integer"
    ELSE IF IsInstance(value, "bool") THEN "boolean"
    ELSE IF IsInstance(value, "float") THEN "number"
    ELSE IF IsInstance(value, "str") THEN "string"
    ELSE "unknown"

\* the isinstance chain bool, int, float, str; "unknown" when none applies
ScalarType(value) ==
    IF IsInstance(value, "bool") THEN "boolean"
    ELSE IF IsInstance(value, "int") THEN "integer"
    ELSE IF IsInstance(value, "float") THEN "number"
    ELSE IF IsInstance(value, "str") THEN "string"
    ELSE "unknown"

\* the item schema of a list value
InferItems(value) ==
    IF Len(value.items) > 0
    THEN LET first_item == value.items[1] IN
         IF ScalarType(first_item) # "unknown"
         THEN [type |-> ScalarType(first_item)]
         ELSE [type |-> "string"]
    ELSE [type |-> "number"]

\* MeshBuilder._infer_variable_schema
InferVariableSchema(init, var_name) ==
    IF var_name \in DOMAIN init
    THEN LET value == init[var_name] IN
         IF ScalarType(value) # "unknown" THEN [type |-> ScalarType(value)]
         ELSE IF IsInstance(value, "list")
              THEN [type |-> "array", items |-> InferItems(value)]
              ELSE [type |-> "number"]
    ELSE [type |-> "number"]

\* the clause about minimum and maximum
RangeClause(var_schema) ==
    LET var_type == IF "type" \in DOMAIN var_schema
                    THEN var_schema["type"] ELSE ""
        has_min == "minimum" \in DOMAIN var_schema
        has_max == "maximum" \in DOMAIN var_schema
    IN IF var_type \in {"number", "integer"}
       THEN IF has_min /\ has_max
            THEN << "Value must be between "
                    \o ToString(var_schema["minimum"]) \o " and "
                    \o ToString(var_schema["maximum"]) >>
            ELSE IF has_min
            THEN << "Minimum value: " \o ToString(var_schema["minimum"]) >>
            ELSE IF has_max
            THEN << "Maximum value: " \o ToString(var_schema["maximum"]) >>
            ELSE <<>>
       ELSE <<>>

PatternClause(var_schema) ==
    IF "pattern" \in DOMAIN var_schema
    THEN << "Must match pattern: " \o var_schema["pattern"] >> ELSE <<>>

MinLengthClause(var_schema) ==
    IF "minLength" \in DOMAIN var_schema
    THEN << "Minimum length: " \o ToString(var_schema["minLength"]) >>
    ELSE <<>>

MaxLengthClause(var_schema) ==
    IF "maxLength" \in DOMAIN var_schema
    THEN << "Maximum length: " \o ToString(var_schema["maxLength"]) >>
    ELSE <<>>

EnumClause(var_schema) ==
    IF "enum" \in DOMAIN var_schema
    THEN << "Allowed values: " \o Join(Strs(var_schema["enum"]), ", ") >>
    ELSE <<>>

\* the clauses with the enumeration first
ConstraintsEnumFirst(var_schema) ==
    EnumClause(var_schema) \o RangeClause(var_schema)
        \o PatternClause(var_schema) \o MinLengthClause(var_schema)
        \o MaxLengthClause(var_schema)

\* the list constraints, in the order of its appends
Constraints(var_schema) ==
    RangeClause(var_schema) \o PatternClause(var_schema)
        \o MinLengthClause(var_schema) \o MaxLengthClause(var_schema)
        \o EnumClause(var_schema)

\* MeshBuilder._add_constraint_descriptions
AddConstraintDescriptions(var_schema) ==
    IF "description" \in DOMAIN var_schema THEN var_schema
    ELSE IF Constraints(var_schema) # <<>>
         THEN Put(var_schema, "description",
                  Join(Constraints(var_schema), "; "))
         ELSE var_schema

\* the schema of one variable: inference, overrides, description
VariableSchema(init, ov, var_name) ==
    AddConstraintDescriptions(
        IF var_name \in DOMAIN ov
        THEN Update(InferVariableSchema(init, var_name), ov[var_name])
        ELSE InferVariableSchema(init, var_name))

\* MeshBuilder._generate_json_schema
GenerateJsonSchema(m, init, ov) ==
    [type |-> "object",
     properties |-> [var_name \in GetAllVariables(m, init, ov) |->
                        VariableSchema(init, ov, var_name)],
     required |-> <<>>]

(***************************************************************************)
(* MeshBuilder: the UI schema.                                             *)
(***************************************************************************)
\* every widget the plain text input
WidgetText(name) == ("ui:widget" :> "text")

\* ui_config["ui:widget"] = name
Widget(name) == ("ui:widget" :> name)

\* the if/elif chain over the name prefixes
PrefixConventions(var_name) ==
    IF StartsWith(var_name, "slider_") \/ StartsWith(var_name, "range_")
    THEN Widget("range") @@ ("minimum" :> 0) @@ ("maximum" :> 100)
    ELSE IF StartsWith(var_name, "readonly_") THEN ("ui:readonly" :> TRUE)
    ELSE IF StartsWith(var_name, "hidden_") THEN Widget("hidden")
    ELSE IF StartsWith(var_name, "color_") THEN Widget("color")
    ELSE IF StartsWith(var_name, "date_") THEN Widget("date")
    ELSE IF StartsWith(var_name, "time_") THEN Widget("time")
    ELSE IF StartsWith(var_name, "datetime_") THEN Widget("datetime-local")
    ELSE IF StartsWith(var_name, "email_") THEN Widget("email")
    ELSE IF StartsWith(var_name, "url_") THEN Widget("url")
    ELSE IF StartsWith(var_name, "tel_") THEN Widget("tel")
    ELSE IF StartsWith(var_name, "textarea_") THEN Widget("textarea")
    ELSE IF StartsWith(var_name, "password_") THEN Widget("password")
    ELSE IF StartsWith(var_name, "number_") THEN Widget("updown")
    ELSE IF StartsWith(var_name, "checkbox_") THEN Widget("checkbox")
    ELSE IF StartsWith(var_name, "list_") \/ StartsWith(var_name, "array_")
    THEN ("ui:options" :>
            [addable |-> TRUE, removable |-> TRUE, orderable |-> TRUE])
    ELSE IF StartsWith(var_name, "tags_")
    THEN ("ui:options" :> [addable |-> TRUE, removable |-> TRUE])
    ELSE EmptyObject

\* MeshBuilder._apply_ui_conventions
ApplyUiConventions(m, init, var_name) ==
    LET ui_config == PrefixConventions(var_name) IN
    IF /\ var_name \in KeySet(m)
       /\ var_name \notin DOMAIN init
       /\ "ui:readonly" \notin DOMAIN ui_config
       /\ ~StartsWith(var_name, "slider_")
    THEN Put(ui_config, "ui:readonly", TRUE)
    ELSE ui_config

\* {k: v for k, v in override.items() if k.startswith("ui:")}
UiKeys(override) ==
    [k \in {x \in DOMAIN override : StartsWith(x, "ui:")} |-> override[k]]

\* the UI configuration of one variable: conventions, then overrides
UiConfig(m, init, ov, var_name) ==
    IF var_name \in DOMAIN ov
    THEN Update(ApplyUiConventions(m, init, var_name), UiKeys(ov[var_name]))
    ELSE ApplyUiConventions(m, init, var_name)

\* MeshBuilder._generate_ui_schema: an empty configuration gets no entry
GenerateUiSchema(m, init, ov) ==
    [var_name \in {v \in GetAllVariables(m, init, ov) :
                      DOMAIN UiConfig(m, init, ov, v) # {}} |->
        UiConfig(m, init, ov, var_name)]

(***************************************************************************)
(* MeshBuilder.generate_config                                             *)
(***************************************************************************)
\* self.mesh.get(name, [])
MeshGet(m, name) == IF name \in KeySet(m) THEN ArgsOf(m, name) ELSE <<>>

\* MeshBuilder._resolve_functions: function(<args>) { <code> } per entry
ResolveFunctions(m, fns) ==
    [name \in DOMAIN fns |-> [params |-> MeshGet(m, name), body |-> fns[name]]]

\* MeshBuilder._build_reverse_mesh
BuildReverseMesh(m) == ReverseFrom(EmptyObject, m, 1)

\* the value of config before generate_config has returned
NoConfig == EmptyObject

\* generate_config on a constructed builder
GenerateConfig ==
    /\ pc = "new"
    /\ IF GetAllVariablesRaises(mesh)
       THEN /\ pc' = "raised"
            /\ UNCHANGED <<reverseMesh, config>>
       ELSE /\ config' =
                 [schema |-> GenerateJsonSchema(mesh, initial_values,
                                                field_overrides),
                  uiSchema |-> GenerateUiSchema(mesh, initial_values,
                                                field_overrides),
                  functions |-> ResolveFunctions(mesh, functions_spec.entries),
                  propagation_rules |->
                      [reverseMesh |-> BuildReverseMesh(mesh), mesh |-> mesh],
                  initial_values |-> initial_values,
                  mesh |-> mesh]
            /\ reverseMesh' = BuildReverseMesh(mesh)
            /\ pc' = "configured"
    /\ UNCHANGED <<mesh, functions, initial_values, engineVars, mesh_spec,
                   functions_spec, field_overrides, toolVars, pageVars>>

(***************************************************************************)
(* MeshValidator.validate_mesh_spec                                        *)
(***************************************************************************)
Error(kind, func, dep) == [kind |-> kind, func |-> func, dep |-> dep]

\* the orders in which the keys of a dict can have been inserted
Orderings(S) == {seq \in [1..Cardinality(S) -> S] : Range(seq) = S}

\* first loop, one entry: the implementation check, then the list check
StructureErrors(entry, fns) ==
    (IF entry.name \notin DOMAIN fns
     THEN <<Error("no implementation", entry.name, "")>> ELSE <<>>)
    \o (IF entry.type # "list"
        THEN <<Error("must be a list", entry.name, "")>> ELSE <<>>)

\* second loop, one entry: a message per dependency outside all_vars
UndefinedErrors(entry, all_vars) ==
    LET undefined(dep) == dep \notin all_vars
        deps == SelectSeq(entry.args, undefined)
    IN [i \in 1..Len(deps) |->
           Error("undefined variable", entry.name, deps[i])]

\* third loop: a message per function outside defined_vars
OrphanErrors(func_names, defined_vars) ==
    LET orphaned(func_name) == func_name \notin defined_vars
        orphans == SelectSeq(func_names, orphaned)
    IN [i \in 1..Len(orphans) |-> Error("never used", orphans[i], "")]

\* for func_name, deps in mesh_spec.items(): the first loop
RECURSIVE CheckStructure(_, _, _)
CheckStructure(m, i, fns) ==
    IF i > Len(m) THEN <<>>
    ELSE StructureErrors(m[i], fns) \o CheckStructure(m, i + 1, fns)

\* for func_name, deps in mesh_spec.items(): the second loop
RECURSIVE CheckUndefined(_, _, _)
CheckUndefined(m, i, all_vars) ==
    IF i > Len(m) THEN <<>>
    ELSE UndefinedErrors(m[i], all_vars) \o CheckUndefined(m, i + 1, all_vars)

\* the error list for dict arguments whose dependency values all iterate
ValidationErrors(m, fns, func_names, init) ==
    CheckStructure(m, 1, fns)
        \o CheckUndefined(m, 1, DOMAIN init \cup KeySet(m))
        \o OrphanErrors(func_names, KeySet(m) \cup DOMAIN init)

\* validate_mesh_spec(mesh_spec, functions_spec, initial_values)
ValidateMeshSpec ==
    /\ pc = "constructing"
    /\ IF mesh_spec.t # "dict"
       THEN /\ errors' = <<Error("mesh_spec must be a dictionary", "", "")>>
            /\ is_valid' = FALSE
            /\ pc' = "validated"
       ELSE IF functions_spec.t # "dict"
       THEN /\ errors' =
                 <<Error("functions_spec must be a dictionary", "", "")>>
            /\ is_valid' = FALSE
            /\ pc' = "validated"
       ELSE IF \E i \in 1..Len(mesh_spec.entries) :
                  ~Iterable(mesh_spec.entries[i])
       THEN /\ pc' = "raised"
            /\ UNCHANGED <<errors, is_valid>>
       ELSE \E func_names \in Orderings(DOMAIN functions_spec.entries) :
            /\ errors' = ValidationErrors(mesh_spec.entries,
                                          functions_spec.entries, func_names,
                                          initial_values)
            /\ is_valid' = (Len(errors') = 0)
            /\ pc' = "validated"
    /\ UNCHANGED <<mesh, functions, initial_values, reverseMesh, engineVars,
                   builderVars, cycles, dfs_calls, levels, pageVars>>

(***************************************************************************)
(* MeshValidator.detect_circular_dependencies                              *)
(***************************************************************************)
\* a path test that a visited node never passes
OnPathUnlessVisited(node, path, seen) ==
    node \in Range(path) /\ node \notin seen

\* if node in path
OnPath(node, path, seen) == node \in Range(path)

\* path[path.index(node):] + [node]
CycleFrom(node, path) ==
    LET cycle_start == CHOOSE i \in 1..Len(path) :
                          path[i] = node /\ \A j \in 1..(i - 1) : path[j] # node
    IN Append(SubSeq(path, cycle_start, Len(path)), node)

\* dfs(node, visited, path); st holds the visited set the calls share, the
\* list cycles and the number of calls made
RECURSIVE Dfs(_, _, _, _)
RECURSIVE DfsDeps(_, _, _, _, _)
Dfs(m, node, path, st) ==
    LET entered == [st EXCEPT !.calls = @ + 1] IN
    IF OnPath(node, path, st.visited)
    THEN LET cycle == CycleFrom(node, path) IN
         IF cycle \notin Range(st.cycles)
         THEN [entered EXCEPT !.cycles = Append(@, cycle)]
         ELSE entered
    ELSE IF node \in st.visited THEN entered
    ELSE LET marked == [entered EXCEPT !.visited = @ \cup {node}] IN
         IF node \in KeySet(m)
         THEN DfsDeps(m, ArgsOf(m, node), 1, Append(path, node), marked)
         ELSE marked

\* for dep in mesh_spec[node]: if dep in mesh_spec: dfs(dep, visited, path.copy())
DfsDeps(m, deps, i, path, st) ==
    IF i > Len(deps) THEN st
    ELSE DfsDeps(m, deps, i + 1, path,
                 IF deps[i] \in KeySet(m) THEN Dfs(m, deps[i], path, st)
                 ELSE st)

\* for func_name in mesh_spec.keys(): dfs(func_name, set(), [])
RECURSIVE DetectFrom(_, _, _)
DetectFrom(m, i, st) ==
    IF i > Len(m) THEN st
    ELSE DetectFrom(m, i + 1,
                    Dfs(m, m[i].name, <<>>, [st EXCEPT !.visited = {}]))

\* detect_circular_dependencies(mesh_spec)
DetectCircularDependencies ==
    /\ pc = "new"
    /\ IF mesh_spec.t # "dict"
          \/ \E i \in 1..Len(mesh_spec.entries) :
                ~Iterable(mesh_spec.entries[i])
       THEN /\ pc' = "raised"
            /\ UNCHANGED <<cycles, dfs_calls>>
       ELSE LET st == DetectFrom(mesh_spec.entries, 1,
                                 [visited |-> {}, cycles |-> <<>>, calls |-> 0])
            IN /\ cycles' = st.cycles
               /\ dfs_calls' = st.calls
               /\ pc' = "detected"
    /\ UNCHANGED <<mesh, functions, initial_values, reverseMesh, engineVars,
                   builderVars, is_valid, errors, levels, pageVars>>

(***************************************************************************)
(* utils.get_execution_order                                               *)
(***************************************************************************)
\* the number of places of seq that hold x
Count(seq, x) == Cardinality({i \in 1..Len(seq) : seq[i] = x})

\* in_degree after the first loops: for every key, the number of places in
\* the dependency lists that name it
InDegree(m) ==
    LET Sum[i \in 0..Len(m)] ==
            [var \in KeySet(m) |->
                IF i = 0 THEN 0 ELSE Sum[i - 1][var] + Count(m[i].args, var)]
    IN Sum[Len(m)]

\* the alphabet of the variable names, in the order sorted() puts them
NameOrder == <<"a", "b", "c">>

\* sorted(current_level), for a level without repetitions
Sorted(level) ==
    LET member(x) == x \in Range(level) IN SelectSeq(NameOrder, member)

\* for func, deps in mesh_spec.items(): if var in deps: ...   st holds
\* in_degree and next_level
RECURSIVE Release(_, _, _, _)
Release(m, var, i, st) ==
    IF i > Len(m) THEN st
    ELSE LET func == m[i].name IN
         IF var \in Range(m[i].args)
         THEN LET degree == st.in_degree[func] - 1 IN
              Release(m, var, i + 1,
                      [in_degree |-> [st.in_degree EXCEPT ![func] = degree],
                       next_level |-> IF degree = 0
                                      THEN Append(st.next_level, func)
                                      ELSE st.next_level])
         ELSE Release(m, var, i + 1, st)

\* for var in current_level: ...
RECURSIVE ReleaseAll(_, _, _, _)
ReleaseAll(m, current_level, i, st) ==
    IF i > Len(current_level) THEN st
    ELSE ReleaseAll(m, current_level, i + 1,
                    Release(m, current_level[i], 1, st))

\* while current_level: ...
RECURSIVE WhileLevel(_, _, _, _)
WhileLevel(m, in_degree, current_level, result) ==
    IF current_level = <<>> THEN result
    ELSE LET st == ReleaseAll(m, current_level, 1,
                              [in_degree |-> in_degree, next_level |-> <<>>])
         IN WhileLevel(m, st.in_degree, st.next_level,
                       Append(result, Sorted(current_level)))

\* get_execution_order(mesh_spec) on a dict of lists
ExecutionOrder(m) ==
    LET in_degree == InDegree(m)
        free(var) == in_degree[var] = 0
    IN WhileLevel(m, in_degree, SelectSeq(Keys(m), free), <<>>)

GetExecutionOrder ==
    /\ pc = "new"
    /\ IF mesh_spec.t # "dict"
          \/ \E i \in 1..Len(mesh_spec.entries) :
                ~Iterable(mesh_spec.entries[i])
       THEN /\ pc' = "raised"
            /\ UNCHANGED levels
       ELSE /\ levels' = ExecutionOrder(mesh_spec.entries)
            /\ pc' = "ordered"
    /\ UNCHANGED <<mesh, functions, initial_values, reverseMesh, engineVars,
                   builderVars, is_valid, errors, cycles, dfs_calls,
                   pageVars>>

(***************************************************************************)
(* validation.validate_mesh                                                *)
(***************************************************************************)
\* the JavaScript body that a kind of computation stands for, x being the
\* name of the function's dependency
Source(kind) ==
    CASE kind = "inc" -> "return x + 1;"
      [] kind = "neg" -> "return x * -1;"
      [] kind = "fahrenheit" -> "return celsius * 9/5 + 32;"
      [] kind = "kelvin" -> "return celsius + 273.15;"
      [] kind = "noop" -> "if (x < 0) { return; }"
      [] kind = "throws" -> "throw new Error(x);"
      [] kind = "choice" -> "return x ? 1 : 0;"
      [] kind = "rem" -> "return x % 3;"

\* sub in s
Contains(s, sub) ==
    \E i \in 1..(Len(s) - Len(sub) + 1) : SubSeq(s, i, i + Len(sub) - 1) = sub

\* s.count(c) for a single character c
CountOf(s, c) == Cardinality({i \in 1..Len(s) : SubSeq(s, i, i) = c})

\* not s.strip()
IsBlank(s) == \A i \in 1..Len(s) : SubSeq(s, i, i) = " "

\* the body of the loop of validate_function_syntax for one function whose
\* code is a string
SyntaxErrors(func_name, func_code) ==
    (IF IsBlank(func_code)
     THEN <<Error("is empty", func_name, "")>> ELSE <<>>)
    \o (IF ~Contains(func_code, "return")
        THEN <<Error("Warning: no return statement", func_name, "")>>
        ELSE <<>>)
    \o (IF CountOf(func_code, "{") # CountOf(func_code, "}")
        THEN <<Error("unbalanced curly braces", func_name, "")>> ELSE <<>>)
    \o (IF CountOf(func_code, "(") # CountOf(func_code, ")")
        THEN <<Error("unbalanced parentheses", func_name, "")>> ELSE <<>>)
    \o (IF CountOf(func_code, "[") # CountOf(func_code, "]")
        THEN <<Error("unbalanced square brackets", func_name, "")>>
        ELSE <<>>)

\* validate_function_syntax(functions_spec): the list of messages
RECURSIVE ValidateFunctionSyntax(_, _, _)
ValidateFunctionSyntax(fns, func_names, i) ==
    IF i > Len(func_names) THEN <<>>
    ELSE SyntaxErrors(func_names[i], Source(fns[func_names[i]]))
            \o ValidateFunctionSyntax(fns, func_names, i + 1)

\* validate_mesh(mesh_spec, functions_spec, initial_values, raise_on_error)
\* ends in pc "accepted" (returned True), "rejected" (returned False),
\* "ValueError" (raised on request) or "raised" (any other exception)
ValidateMesh ==
    /\ pc = "constructing"
    /\ \E raise_on_error \in BOOLEAN :
       IF mesh_spec.t # "dict"
       THEN \* validate_mesh_spec returns its message; mesh_spec.keys() raises
            /\ errors' = <<Error("mesh_spec must be a dictionary", "", "")>>
            /\ is_valid' = FALSE
            /\ pc' = "raised"
            /\ UNCHANGED <<cycles, dfs_calls>>
       ELSE IF \E i \in 1..Len(mesh_spec.entries) :
                  ~Iterable(mesh_spec.entries[i])
       THEN \* for dep in deps raises, in validate_mesh_spec or in dfs
            /\ pc' = "raised"
            /\ UNCHANGED <<errors, is_valid, cycles, dfs_calls>>
       ELSE LET st == DetectFrom(mesh_spec.entries, 1,
                                 [visited |-> {}, cycles |-> <<>>, calls |-> 0])
                found == IF st.cycles # <<>>
                         THEN <<Error("Circular dependencies detected", "", "")>>
                         ELSE <<>>
            IN IF functions_spec.t # "dict"
               THEN \* the detection runs; functions_spec.items() raises
                    /\ errors' =
                          <<Error("functions_spec must be a dictionary",
                                  "", "")>> \o found
                    /\ is_valid' = FALSE
                    /\ cycles' = st.cycles
                    /\ dfs_calls' = st.calls
                    /\ pc' = "raised"
               ELSE \E func_names \in Orderings(DOMAIN functions_spec.entries) :
                    LET first == ValidationErrors(mesh_spec.entries,
                                                  functions_spec.entries,
                                                  func_names, initial_values)
                    IN /\ is_valid' = (Len(first) = 0)
                       /\ IF ~(Len(first) = 0) \/ first # <<>>
                          THEN /\ errors' =
                                    first \o found
                                      \o ValidateFunctionSyntax(
                                            functions_spec.entries,
                                            func_names, 1)
                               /\ cycles' = st.cycles
                               /\ dfs_calls' = st.calls
                          ELSE /\ errors' = first
                               /\ UNCHANGED <<cycles, dfs_calls>>
                       /\ pc' = IF errors' = <<>> THEN "accepted"
                                ELSE IF raise_on_error THEN "ValueError"
                                ELSE "rejected"
    /\ UNCHANGED <<mesh, functions, initial_values, reverseMesh, engineVars,
                   builderVars, levels, pageVars>>

(***************************************************************************)
(* testing.MeshTester: the Python engine that tests run instead of the     *)
(* generated page.                                                         *)
(***************************************************************************)
\* js_code.split("return ")[1].split(";")[0].strip(), for a body with one
\* return statement
Expr(js_code) ==
    LET from == CHOOSE i \in 1..Len(js_code) :
                    /\ SubSeq(js_code, i, i + 6) = "return "
                    /\ \A j \in 1..(i - 1) :
                          SubSeq(js_code, j, j + 6) # "return "
        rest == SubSeq(js_code, from + 7, Len(js_code))
        semis == {i \in 1..Len(rest) : SubSeq(rest, i, i) = ";"}
        upto == IF semis = {} THEN Len(rest)
                ELSE (CHOOSE i \in semis : \A j \in semis : i <= j) - 1
        part == SubSeq(rest, 1, upto)
        inked == {i \in 1..Len(part) : SubSeq(part, i, i) # " "}
    IN IF inked = {} THEN ""
       ELSE SubSeq(part, CHOOSE i \in inked : \A j \in inked : i <= j,
                         CHOOSE i \in inked : \A j \in inked : i >= j)

\* eval("lambda x: " + expr) succeeds: of the expressions of Source, the
\* conditional one is not a Python expression
IsPythonExpression(expr) == ~Contains(expr, "?")

\* _compile_functions: funcName -> the kind whose arithmetic the lambda
\* does, or "identity" for the fallback; bodies without "return " get none
CompileFunctions(fns) ==
    [f \in {g \in DOMAIN fns : Contains(Source(fns[g]), "return ")} |->
        IF IsPythonExpression(Expr(Source(fns[f]))) THEN fns[f]
        ELSE "identity"]

\* self._compiled_functions[func_name](*dep_values); a number is the value
\* of the lambda's first parameter
PyCall(compiled, dep_values) ==
    IF compiled = "identity"
    THEN Returned(IF Len(dep_values) > 0 THEN dep_values[1] ELSE Num(0))
    ELSE IF Len(dep_values) = 0 \/ dep_values[1].t = "undefined" THEN Threw
    ELSE IF dep_values[1].t = "NaN" THEN Returned(NaN)
    ELSE LET n == dep_values[1].n IN
         CASE compiled = "inc" -> Returned(Num(PlusOne(n)))
           [] compiled = "neg" -> Returned(Num(Negate(n)))
           [] compiled = "fahrenheit" -> Returned(Num(ToFahrenheit(n)))
           [] compiled = "kelvin" -> Returned(Num(ToKelvin(n)))
           [] compiled = "rem" -> Returned(Num(n % 300))

\* for func_name, deps in self.mesh_spec.items(): ... from entry i on; st
\* holds result and changed
RECURSIVE PyForEach(_, _, _, _)
PyForEach(m, compiled, i, st) ==
    IF i > Len(m) THEN st
    ELSE LET func_name == m[i].name
             deps == m[i].args
             dep_values == [k \in 1..Len(deps) |->
                              IF deps[k] \in DOMAIN st.result
                              THEN st.result[deps[k]] ELSE Num(0)]
             r == IF func_name \in DOMAIN compiled
                  THEN PyCall(compiled[func_name], dep_values) ELSE Threw
         IN IF func_name \in DOMAIN compiled /\ ~r.threw
               /\ (func_name \notin DOMAIN st.result
                     \/ r.value.t = "NaN"
                     \/ st.result[func_name] # r.value)
            THEN PyForEach(m, compiled, i + 1,
                           [result |-> Put(st.result, func_name, r.value),
                            changed |-> TRUE])
            ELSE PyForEach(m, compiled, i + 1, st)

\* for _ in range(max_iterations): ... return result, after n passes
RECURSIVE PyRange(_, _, _, _)
PyRange(m, compiled, result, n) ==
    IF ~(n < 50) THEN [result |-> result, passes |-> n]
    ELSE LET st == PyForEach(m, compiled, 1,
                             [result |-> result, changed |-> FALSE])
         IN IF ~st.changed THEN [result |-> st.result, passes |-> n + 1]
            ELSE PyRange(m, compiled, st.result, n + 1)

\* a test replays the edit that propagate was called with on a MeshTester
\* of the same specification: compute({changedVariable: newValue})
Compute ==
    /\ pc = "returned"
    /\ formData = initial_values
    /\ LET r == PyRange(mesh, CompileFunctions(functions),
                        Put(initial_values, changedVariable, newValue), 0)
       IN /\ computed' = r.result
          /\ passes' = r.passes
    /\ pc' = "compared"
    /\ UNCHANGED <<mesh, functions, initial_values, reverseMesh, engineVars,
                   builderVars, toolVars, currentFormData, renders>>

(***************************************************************************)
(* The page: onChange and renderForm.                                      *)
(***************************************************************************)
\* the decimal text of the number n/100
Decimal(n) ==
    LET a == IF n < 0 THEN 0 - n ELSE n
        frac == a % 100
    IN (IF n < 0 THEN "-" ELSE "")
          \o ToString(a \div 100)
          \o (IF frac = 0 THEN ""
              ELSE IF frac % 10 = 0 THEN "." \o ToString(frac \div 10)
              ELSE IF frac < 10 THEN ".0" \o ToString(frac)
              ELSE "." \o ToString(frac))

\* JSON.stringify of a value: NaN is written as null
JsonText(v) == IF v.t = "NaN" THEN "null" ELSE Decimal(v.n)

\* JSON.stringify(obj), up to the order of the keys: a key whose value is
\* undefined is left out.  onChange compares formData with an object that
\* was spread from it, so the keys they share come in the same order and
\* the two texts are equal exactly when these functions are.
JsonStringify(obj) ==
    [k \in {x \in DOMAIN obj : obj[x].t # "undefined"} |-> JsonText(obj[k])]

\* Object.keys(formData): the form lists its fields in one fixed order,
\* here the order of the names.  The meshes a page is built from come in
\* every declaration order and with every assignment of dependencies, so
\* any other order of the fields is this one with the variables renamed.
ObjectKeys(obj) ==
    LET present(x) == x \in DOMAIN obj IN SelectSeq(NameOrder, present)

\* what the form shows: the state last rendered by the handler of the last
\* event, or the event's own formData when that handler rendered nothing
Displayed == IF renders = 0 THEN formData ELSE currentFormData

\* Object.keys(formData).forEach(function(key) { ... }) from key i on; the
\* return inside the callback ends the callback, not the forEach.  st holds
\* window.currentFormData, the renderForm calls and the propagate calls.
RECURSIVE ForEachKey(_, _, _, _)
ForEachKey(keys, i, fd, st) ==
    IF i > Len(keys) THEN st
    ELSE IF keys[i] \notin DOMAIN reverseMesh
    THEN ForEachKey(keys, i + 1, fd, st)
    ELSE LET returned == PropagateOf(mesh, functions, keys[i], fd[keys[i]],
                                     fd).nfd
         IN IF JsonStringify(returned) # JsonStringify(fd)
            THEN ForEachKey(keys, i + 1, fd,
                            [current |-> returned,
                             renders |-> st.renders + 1,
                             calls |-> st.calls + 1])
            ELSE ForEachKey(keys, i + 1, fd,
                            [st EXCEPT !.calls = @ + 1])

\* the user edits one field: the form calls onChange({formData}) with the
\* displayed state and the new value of that field
OnChange ==
    /\ pc \in {"idle", "handled"}
    /\ calls < MaxCalls
    /\ \E field \in KeySet(mesh) \cup DOMAIN reverseMesh
                        \cup DOMAIN initial_values,
          value \in {Num(100 * v) : v \in 0..MaxVal} :
          LET fd == Put(Displayed, field, value)
              st == ForEachKey(ObjectKeys(fd), 1, fd,
                               [current |-> currentFormData,
                                renders |-> 0, calls |-> calls])
          IN /\ formData' = fd
             /\ currentFormData' = st.current
             /\ renders' = st.renders
             /\ calls' = st.calls
    /\ pc' = "handled"
    /\ UNCHANGED <<mesh, functions, initial_values, reverseMesh,
                   changedVariable, newValue, newFormData, iter, anyChange,
                   pos, rounds, visited, prevStable, builderVars, toolVars,
                   computed, passes>>

(***************************************************************************)
(* Meshes the engine is run on.                                            *)
(***************************************************************************)
Names == {"a", "b", "c"}
Derived == {"a", "b"}
Kinds == {"inc", "neg", "noop", "throws"}

KeyOrders == {<<>>, <<"a">>, <<"b">>, <<"a", "b">>, <<"b", "a">>}

\* the page after its initial render: the propagator is constructed, no
\* edit has happened yet
Idle(m, fns, init) ==
    /\ mesh = m
    /\ functions = fns
    /\ initial_values = init
    /\ reverseMesh = GenerateAppReverse(m)
    /\ formData = init
    /\ currentFormData = init
    /\ changedVariable = "a"
    /\ newValue = Undefined
    /\ newFormData = init
    /\ iter = 0
    /\ anyChange = FALSE
    /\ pos = 1
    /\ pc = "idle"
    /\ rounds = 0
    /\ visited = <<>>
    /\ calls = 0
    /\ prevStable = FALSE
    /\ mesh_spec = PyDict(m)
    /\ functions_spec = PyDict(fns)
    /\ field_overrides = EmptyObject
    /\ config = NoConfig
    /\ is_valid = FALSE
    /\ errors = <<>>
    /\ cycles = <<>>
    /\ dfs_calls = 0
    /\ levels = <<>>
    /\ renders = 0
    /\ computed = EmptyObject
    /\ passes = 0

\* every mesh over Derived with one dependency per entry, every binding of
\* computations (a key may have none), no or all variables initialised
InitSmall ==
    \E ks \in KeyOrders :
    \E dep \in [{ks[i] : i \in 1..Len(ks)} -> Names] :
    \E bound \in SUBSET {ks[i] : i \in 1..Len(ks)} :
    \E fns \in [bound -> Kinds] :
    \E given \in {{}, Names} :
        Idle([i \in 1..Len(ks) |-> [name |-> ks[i], args |-> <<dep[ks[i]]>>]],
             fns, [x \in given |-> Num(0)])

\* the template of `rh create-template`: a temperature converter
TemplateMesh ==
    << [name |-> "fahrenheit", args |-> <<"celsius">>],
       [name |-> "kelvin", args |-> <<"celsius">>] >>

TemplateFunctions == [fahrenheit |-> "fahrenheit", kelvin |-> "kelvin"]

TemplateInitialValues == [celsius |-> Num(2000)]

InitTemplate == Idle(TemplateMesh, TemplateFunctions, TemplateInitialValues)

\* temperatures whose conversions are exact in double arithmetic
Temperatures == {Num(0), Num(3700), Num(10000)}

\* the user types a temperature into the celsius field of the template
EditCelsius ==
    /\ pc = "idle"
    /\ calls < MaxCalls
    /\ "celsius" \in FormNames
    /\ \E value \in Temperatures : Call("celsius", value, initial_values)

Init == InitSmall \/ InitTemplate

Next == Propagate \/ EditCelsius \/ PropagateAgain \/ EvalFunc \/ EndRound

Spec == Init /\ [][Next]_vars

\* the synchronous loop of propagate runs to completion once entered
FairSpec == Spec /\ WF_vars(EvalFunc) /\ WF_vars(EndRound)

(***************************************************************************)
(* Pages: meshes of up to three derived variables with one dependency      *)
(* each, every one computed by an increment or a negation, all variables   *)
(* initialised to 0.                                                       *)
(***************************************************************************)
PageKeyOrders ==
    {<<>>} \cup {<<x>> : x \in Names}
           \cup {ks \in [1..2 -> Names] : ks[1] # ks[2]}
           \cup {ks \in [1..3 -> Names] : Cardinality(Range(ks)) = 3}

InitPage ==
    \E ks \in PageKeyOrders :
    \E dep \in [Range(ks) -> Names] :
    \E fns \in [Range(ks) -> {"inc", "neg"}] :
        Idle([i \in 1..Len(ks) |-> [name |-> ks[i], args |-> <<dep[ks[i]]>>]],
             fns, [x \in Names |-> Num(0)])

NextPage == OnChange

SpecPage == InitPage /\ [][NextPage]_vars

(***************************************************************************)
(* Tested meshes: up to two derived variables with one dependency each,    *)
(* computed by bodies with a return statement, all variables initialised   *)
(* to 0.                                                                   *)
(***************************************************************************)
TestedKinds == {"inc", "neg", "choice", "rem"}

InitTester ==
    \E ks \in KeyOrders :
    \E dep \in [Range(ks) -> Names] :
    \E fns \in [Range(ks) -> TestedKinds] :
        Idle([i \in 1..Len(ks) |-> [name |-> ks[i], args |-> <<dep[ks[i]]>>]],
             fns, [x \in Names |-> Num(0)])

(***************************************************************************)
(* Linear chains var_0 -> var_1 -> ... -> var_N (test_large_mesh).         *)
(***************************************************************************)
VarName(i) == "var_" \o ToString(i)

\* the i-th declared entry, 1 <= i <= n, of a chain of n derived variables
DeclaredAt(order, n, i) ==
    CASE order = "forward" -> i
      [] order = "reverse" -> n + 1 - i
      [] order = "evens first" ->
            IF i <= n \div 2 THEN 2 * i ELSE 2 * (i - n \div 2) - 1

Orders == {"forward", "reverse", "evens first"}

\* the computation of link i: all increments, or increments and negations
LinkKind(pattern, i) ==
    IF pattern = "inc" \/ i % 2 = 1 THEN "inc" ELSE "neg"

Patterns == {"inc", "alternating"}

ChainMesh(order, n) ==
    [i \in 1..n |->
        [name |-> VarName(DeclaredAt(order, n, i)),
         args |-> <<VarName(DeclaredAt(order, n, i) - 1)>>]]

ChainFunctions(pattern, n) ==
    [x \in {VarName(i) : i \in 1..n} |->
        LinkKind(pattern, CHOOSE i \in 1..n : VarName(i) = x)]

InitChain ==
    \E n \in 1..MaxChain, order \in Orders, pattern \in Patterns :
        Idle(ChainMesh(order, n), ChainFunctions(pattern, n),
             [x \in {VarName(0)} |-> Num(0)])

\* an edit of an input variable: a form variable that is no mesh key
EditInput ==
    /\ pc = "idle"
    /\ calls < MaxCalls
    /\ \E changed \in FormNames \ KeySet(mesh), value \in EditValues :
          Call(changed, value, initial_values)

NextChain == EditInput \/ PropagateAgain \/ EvalFunc \/ EndRound

SpecChain == InitChain /\ [][NextChain]_vars

\* an edit of an input run through propagate and then through compute
NextTester == EditInput \/ EvalFunc \/ EndRound \/ Compute

SpecTester == InitTester /\ [][NextTester]_vars

(***************************************************************************)
(* Short chains on a consistent state: every var_i holds the value its     *)
(* computation yields on var_(i-1), as after an earlier propagation.       *)
(***************************************************************************)
MaxHops == 4     \* longest chain that starts from a consistent state

\* var_0 = 0 and every var_i computed from var_(i-1)
ConsistentChain(pattern, n) ==
    LET val[i \in 0..n] ==
            IF i = 0 THEN Num(0)
            ELSE CallFunction(LinkKind(pattern, i), <<val[i - 1]>>).value
    IN [x \in {VarName(i) : i \in 0..n} |->
            val[CHOOSE i \in 0..n : VarName(i) = x]]

InitHops ==
    \E n \in 1..MaxHops, order \in Orders, pattern \in Patterns :
        Idle(ChainMesh(order, n), ChainFunctions(pattern, n),
             ConsistentChain(pattern, n))

SpecHops == InitHops /\ [][NextChain]_vars

(***************************************************************************)
(* Meshes the configuration is built from.                                 *)
(***************************************************************************)
MaxArgs == 2     \* longest dependency list of a built mesh

ArgLists == UNION {[1..n -> Names] : n \in 0..MaxArgs}

BuildKeyOrders ==
    {<<>>} \cup {<<x>> : x \in Names}
           \cup {ks \in [1..2 -> Names] : ks[1] # ks[2]}
           \cup {ks \in [1..3 -> Names] : Cardinality({ks[1], ks[2], ks[3]}) = 3}

\* a dependency list given as a Python list
ListEntry(name, args) == [name |-> name, args |-> args, type |-> "list"]

\* no propagate call and no utility call has been made
NoCalls ==
    /\ reverseMesh = EmptyObject
    /\ formData = EmptyObject
    /\ currentFormData = EmptyObject
    /\ changedVariable = "a"
    /\ newValue = Undefined
    /\ newFormData = EmptyObject
    /\ iter = 0
    /\ anyChange = FALSE
    /\ pos = 1
    /\ rounds = 0
    /\ visited = <<>>
    /\ calls = 0
    /\ prevStable = FALSE
    /\ config = NoConfig
    /\ is_valid = FALSE
    /\ errors = <<>>
    /\ cycles = <<>>
    /\ dfs_calls = 0
    /\ levels = <<>>
    /\ renders = 0
    /\ computed = EmptyObject
    /\ passes = 0

\* the arguments of MeshBuilder(...), before __post_init__ has run
Constructing(spec, fspec, init, ov) ==
    /\ mesh_spec = spec
    /\ functions_spec = fspec
    /\ initial_values = init
    /\ field_overrides = ov
    /\ mesh = <<>>
    /\ functions = EmptyObject
    /\ pc = "constructing"
    /\ NoCalls

\* a builder constructed from a dict mesh: self.mesh is mesh_spec
Constructed(m, fns, init, ov) ==
    /\ mesh_spec = PyDict(m)
    /\ functions_spec = PyDict(fns)
    /\ initial_values = init
    /\ field_overrides = ov
    /\ mesh = m
    /\ functions = fns
    /\ pc = "new"
    /\ NoCalls

InitBuild ==
    \E ks \in BuildKeyOrders :
    \E deps \in [{ks[i] : i \in 1..Len(ks)} -> ArgLists] :
        Constructed([i \in 1..Len(ks) |-> ListEntry(ks[i], deps[ks[i]])],
                    [x \in {ks[i] : i \in 1..Len(ks)} |-> "inc"],
                    EmptyObject, EmptyObject)

NextBuild == GenerateConfig

SpecBuild == InitBuild /\ [][NextBuild]_vars

(***************************************************************************)
(* Variables the schema and the UI schema are generated for.               *)
(***************************************************************************)
MaxItems == 1    \* longest list among the initial values

Prefixes ==
    {"slider_", "range_", "readonly_", "hidden_", "color_", "date_", "time_",
     "datetime_", "email_", "url_", "tel_", "textarea_", "password_",
     "number_", "checkbox_", "list_", "array_", "tags_"}

\* a name under every prefix, and names that come close to one
WidgetNames ==
    {p \o "x" : p \in Prefixes}
        \cup {"x", "slider", "sliderx", "my_slider_x", "Slider_x",
              "date_time_x", "datetimex", "readonly", "tags"}

ScalarValues ==
    {PyVal(t) : t \in {"bool", "int", "float", "str", "NoneType", "dict"}}

\* initial values: scalars, None, a dict, and lists of those and of lists
InitialValues ==
    ScalarValues
        \cup {PyList(items) :
                items \in UNION {[1..n -> ScalarValues \cup {PyList(<<>>)}] :
                                    n \in 0..MaxItems}}

\* an override dict with every key the builder looks at
FullOverride(type) ==
    ("type" :> type) @@ ("minimum" :> 1) @@ ("maximum" :> 10)
        @@ ("pattern" :> "^[A-Z]+$") @@ ("minLength" :> 2)
        @@ ("maxLength" :> 5) @@ ("enum" :> <<1, 2>>)
        @@ ("description" :> "given") @@ ("ui:widget" :> "textarea")
        @@ ("ui:readonly" :> FALSE)

OverrideKeys == DOMAIN FullOverride("string")

Restrict(d, keys) == [k \in keys |-> d[k]]

\* every override dict over the keys, the type overridden two ways
Overrides(keys) ==
    {Restrict(FullOverride(type), ks) :
        type \in {"string", "integer"}, ks \in SUBSET keys}

\* the variable var_name as a mesh key, or as a dependency only
MeshWith(var_name, role) ==
    IF role = "key" THEN <<ListEntry(var_name, <<"dep">>)>>
    ELSE <<ListEntry("out", <<var_name>>)>>

\* the builder for one variable: its role, its initial value if it has
\* one, its override if it has one
OneVariable(var_name, role, values, overrides) ==
    \E init \in {EmptyObject} \cup {(var_name :> v) : v \in values} :
    \E ov \in {EmptyObject} \cup {(var_name :> o) : o \in overrides} :
        Constructed(MeshWith(var_name, role), [f \in {} |-> "inc"], init, ov)

InitSchema ==
    \E role \in {"key", "dep"} :
        \/ \E var_name \in WidgetNames :
              OneVariable(var_name, role, {PyVal("int")},
                          Overrides({"type", "ui:widget", "ui:readonly",
                                     "minimum"}))
        \/ OneVariable("x", role, InitialValues, Overrides(OverrideKeys))

NextSchema == GenerateConfig

SpecSchema == InitSchema /\ [][NextSchema]_vars

(***************************************************************************)
(* Partially specified inputs: what MeshBuilder and the validator are      *)
(* handed before anything has been checked.                                *)
(***************************************************************************)
\* the values a mesh can hold for a key: a list of names, a tuple of at
\* most one name, or None
DependencyValues ==
    {[args |-> args, type |-> "list"] : args \in ArgLists}
        \cup {[args |-> args, type |-> "tuple"] :
                args \in {<<>>} \cup {<<x>> : x \in Names}}
        \cup {[args |-> <<>>, type |-> "NoneType"]}

\* dict meshes over the keys of Derived, and specifications that are no dict
MeshSpecs ==
    {PyDict([i \in 1..Len(ks) |->
                [name |-> ks[i], args |-> deps[ks[i]].args,
                 type |-> deps[ks[i]].type]]) :
        ks \in KeyOrders,
        deps \in [Derived -> DependencyValues]}
        \cup {NotADict("list"), NotADict("NoneType")}

\* the keys of a mesh specification; none when it is no dict
SpecKeys(spec) ==
    IF spec.t = "dict" THEN KeySet(spec.entries) ELSE {}

InitPartial ==
    \E spec \in MeshSpecs :
    \E bound \in SUBSET SpecKeys(spec) :
    \E given \in SUBSET {"b", "c"} :
    \E overridden \in SUBSET {"a", "c"} :
        Constructing(spec, PyDict([x \in bound |-> "inc"]),
                     [x \in given |-> PyVal("int")],
                     [x \in overridden |-> [type |-> "string"]])

NextPartial == PostInit \/ GenerateConfig

SpecPartial == InitPartial /\ [][NextPartial]_vars

(***************************************************************************)
(* Inputs of the validation utilities.                                     *)
(***************************************************************************)
\* the arguments of validate_mesh_spec: any mesh specification, a function
\* specification that may be no dict, any set of initial values
InitValidate ==
    \E spec \in MeshSpecs :
    \E fspec \in {PyDict([x \in bound |-> "inc"]) : bound \in SUBSET Names}
                    \cup {NotADict("NoneType")} :
    \E given \in SUBSET Names :
        Constructing(spec, fspec, [x \in given |-> PyVal("int")], EmptyObject)

NextValidate == ValidateMeshSpec

SpecValidate == InitValidate /\ [][NextValidate]_vars

\* validate_mesh on the arguments of validate_mesh_spec
SpecReport == InitValidate /\ [][ValidateMesh]_vars

\* the key orders of the meshes handed to the graph utilities: every order
\* of at most two keys, and the three keys in sorted and in reverse order
\* (the dependency lists range over all names, so every other order of
\* three keys is one of these two with the variables renamed)
GraphKeyOrders ==
    {ks \in BuildKeyOrders : Len(ks) < 3}
        \cup {<<"a", "b", "c">>, <<"c", "b", "a">>}

\* a builder constructed with a dict mesh of dependency lists
InitGraph ==
    \E ks \in GraphKeyOrders :
    \E deps \in [{ks[i] : i \in 1..Len(ks)} -> ArgLists] :
        Constructed([i \in 1..Len(ks) |-> ListEntry(ks[i], deps[ks[i]])],
                    [x \in {ks[i] : i \in 1..Len(ks)} |-> "inc"],
                    EmptyObject, EmptyObject)

\* the graph utilities on the mesh a builder was constructed with
NextGraph == DetectCircularDependencies \/ GetExecutionOrder

SpecGraph == InitGraph /\ [][NextGraph]_vars

(***************************************************************************)
(* Properties of propagate.                                                *)
(***************************************************************************)
\* the value the computation of f yields on state nfd, when it yields one
Yields(nfd, f) ==
    /\ HasFunction(functions, f)
    /\ ~Outcome(nfd, f).threw
    /\ Outcome(nfd, f).value # Undefined

\* re-evaluating f on nfd gives the value nfd holds for f
Reproduces(nfd, f) ==
    /\ Outcome(nfd, f).value.t # "NaN"
    /\ Outcome(nfd, f).value = Get(nfd, f)

\* C1: direct-edit precedence.  Whenever propagate has returned, the
\* returned state maps changedVariable to exactly newValue, whatever the
\* mesh and the computations are.
C1_DirectEditPrecedence ==
    pc = "returned" =>
        /\ changedVariable \in DOMAIN newFormData
        /\ newFormData[changedVariable] = newValue

\* propagate has returned from an edit of a derived variable whose own
\* computation yields another value than the edited one
C1_Witness ==
    /\ pc = "returned"
    /\ changedVariable \in KeySet(mesh)
    /\ Yields(newFormData, changedVariable)
    /\ Outcome(newFormData, changedVariable).value # newValue

\* C2 as stated: the returned state is a fixed point, every derived
\* variable whose computation yields a value holds that value.
C2_Original ==
    pc = "returned" =>
        \A f \in KeySet(mesh) :
            Yields(newFormData, f) => Reproduces(newFormData, f)

\* C2 amended: when propagate returns because a round produced no change,
\* every derived variable other than the edited one whose computation
\* yields a value holds that value.
C2_FixedPointOnEarlyExit ==
    (pc = "returned" /\ ~anyChange) =>
        \A f \in KeySet(mesh) \ {changedVariable} :
            Yields(newFormData, f) => Reproduces(newFormData, f)

\* propagate returned on a no-change round after it rewrote a derived
\* variable in an earlier round
C2_Witness ==
    /\ pc = "returned"
    /\ ~anyChange
    /\ rounds >= 2
    /\ \E f \in KeySet(mesh) \ {changedVariable} :
          /\ Yields(newFormData, f)
          /\ Get(newFormData, f) # Get(formData, f)

\* the number of loop steps propagate can still take: the passes left
\* under a cap of 50, times the steps of a pass, less the steps taken in
\* the current pass
LoopVariant == (50 - iter) * (Len(mesh) + 1) - pos

\* C3: propagate always terminates.  It never passes over the mesh more
\* than 50 times, every pass it completes has run the body for all the
\* forward-mesh keys in declaration order, and it never raises.  While the
\* loop runs a next step is always possible, every step either returns or
\* decreases LoopVariant, and LoopVariant never drops below zero: the loop
\* returns after finitely many steps.
C3_Terminates ==
    /\ [](rounds <= 50)
    /\ []((rounds >= 1 /\ (pos > Len(mesh) \/ pc = "returned"))
              => visited = Keys(mesh))
    /\ [](pc # "raised")
    /\ [](pc = "loop" => (LoopVariant >= 0 /\ ENABLED (EvalFunc \/ EndRound)))
    /\ [][pc = "loop" =>
            \/ pc' = "returned"
            \/ (pc' = "loop" /\ LoopVariant' < LoopVariant)]_vars

\* a non-convergent mesh: propagate returned after exactly 50 passes, the
\* last of which still changed a value
C3_Witness ==
    /\ pc = "returned"
    /\ rounds = 50
    /\ anyChange
    /\ Len(mesh) >= 1

\* C4 as stated: a second call with the same variable and the value the
\* first call returned for it returns the state the first call returned.
C4_Original ==
    (pc = "returned" /\ calls >= 2) => newFormData = formData

\* C4 amended: if the first call returned because a round produced no
\* change, the second call returns the state the first call returned.
C4_IdempotentOnceStable ==
    (pc = "returned" /\ calls >= 2 /\ prevStable) => newFormData = formData

\* a second call has returned, after a first call that rewrote a derived
\* variable and then stopped on a no-change round
C4_Witness ==
    /\ pc = "returned"
    /\ calls >= 2
    /\ prevStable
    /\ \E f \in KeySet(mesh) :
          /\ Yields(newFormData, f)
          /\ Get(newFormData, f) # Get(initial_values, f)

\* in a chain, var_i holds the value its computation yields on var_(i-1);
\* with var_0 = x this makes var_i the first i chain functions applied to x
ChainComposed(nfd) ==
    /\ Get(nfd, VarName(0)) = newValue
    /\ \A i \in 1..Len(mesh) :
          /\ Yields(nfd, VarName(i))
          /\ Reproduces(nfd, VarName(i))

\* C5 as stated: for a chain of any length N in any declaration order, an
\* edit of var_0 reaches its no-change round within N+1 rounds and leaves
\* every var_i equal to the composed chain functions of the new var_0.
C5_Original ==
    pc = "returned" =>
        /\ rounds <= Len(mesh) + 1
        /\ ~anyChange
        /\ ChainComposed(newFormData)

\* C5 amended: the same for chains of fewer than 50 derived variables.
C5_ChainConverges ==
    (pc = "returned" /\ Len(mesh) < 50) =>
        /\ rounds <= Len(mesh) + 1
        /\ ~anyChange
        /\ ChainComposed(newFormData)

\* a chain declared against the direction of the dependencies needed all
\* of its N+1 rounds
C5_Witness ==
    /\ pc = "returned"
    /\ Len(mesh) >= 3
    /\ Len(mesh) < 50
    /\ rounds = Len(mesh) + 1
    /\ changedVariable = VarName(0)
    /\ ChainComposed(newFormData)

\* a and b form a two-variable cycle: a = f(b), b = g(a)
TwoCycle(a, b) ==
    /\ a # b
    /\ KeySet(mesh) = {a, b}
    /\ ArgsOf(mesh, a) = <<b>>
    /\ ArgsOf(mesh, b) = <<a>>

\* the state nfd satisfies the equations of both a and b
ConsistentPair(nfd, a, b) ==
    /\ Yields(nfd, a) /\ Reproduces(nfd, a)
    /\ Yields(nfd, b) /\ Reproduces(nfd, b)

\* the cycle a = f(b), b = g(a) has a fixed point in which a is x:
\* g yields a value y on x, and f yields x on y
FixedPointAt(a, b, x) ==
    /\ HasFunction(functions, a)
    /\ HasFunction(functions, b)
    /\ LET y == CallFunction(functions[b], <<x>>) IN
          /\ ~y.threw
          /\ y.value.t = "number"
          /\ CallFunction(functions[a], <<y.value>>) = Returned(x)

ThrowsNow ==
    /\ pc = "loop"
    /\ pos <= Len(mesh)
    /\ HasFunction(functions, Keys(mesh)[pos])
    /\ Outcome(newFormData, Keys(mesh)[pos]).threw

\* C7: a computation that throws leaves its variable, the change flag and
\* the round counter as they are and the loop moves on to the next key;
\* every pass still runs the body for all keys; propagate never raises.
C7_ErrorsDegradeGracefully ==
    /\ [][ThrowsNow =>
            /\ pc' = "loop"
            /\ pos' = pos + 1
            /\ newFormData' = newFormData
            /\ anyChange' = anyChange
            /\ iter' = iter]_vars
    /\ [](pos > Len(mesh) => visited = Keys(mesh))
    /\ [](pc # "raised")

\* a computation threw, and a variable declared after it was still
\* recomputed; propagate returned after a further round
C7_Witness ==
    /\ pc = "returned"
    /\ rounds >= 2
    /\ Len(mesh) = 2
    /\ HasFunction(functions, Keys(mesh)[1])
    /\ Outcome(newFormData, Keys(mesh)[1]).threw
    /\ Yields(newFormData, Keys(mesh)[2])
    /\ Get(newFormData, Keys(mesh)[2]) # Get(formData, Keys(mesh)[2])

\* an edit of celsius to 100 on the template's initial state
TemplateEdit ==
    /\ mesh = TemplateMesh
    /\ functions = TemplateFunctions
    /\ formData = TemplateInitialValues
    /\ changedVariable = "celsius"
    /\ newValue = Num(10000)

\* C8: on the temperature template with celsius = 20.0,
\* propagate(celsius, 100, state) returns celsius = 100, fahrenheit = 212
\* and kelvin = 373.15.
C8_TemperatureScenario ==
    (pc = "returned" /\ TemplateEdit) =>
        newFormData = [celsius |-> Num(10000), fahrenheit |-> Num(21200),
                       kelvin |-> Num(37315)]

\* the call of the scenario has returned
C8_Witness ==
    /\ pc = "returned"
    /\ TemplateEdit
    /\ rounds = 2

\* C9: a variable that is neither a forward-mesh key nor the changed
\* variable is in the returned state exactly as it was in the state passed
\* in: same presence, same value.
C9_InputsUntouched ==
    pc = "returned" =>
        \A v \in (FormNames \cup DOMAIN formData \cup DOMAIN newFormData)
                    \ (KeySet(mesh) \cup {changedVariable}) :
            /\ v \in DOMAIN newFormData <=> v \in DOMAIN formData
            /\ Get(newFormData, v) = Get(formData, v)

\* a call that rewrote a derived variable returned, and the form holds an
\* input variable that was not the one edited
C9_Witness ==
    /\ pc = "returned"
    /\ \E v \in DOMAIN formData \ (KeySet(mesh) \cup {changedVariable}) :
          newFormData[v] = formData[v]
    /\ \E f \in KeySet(mesh) : Get(newFormData, f) # Get(formData, f)

\* C10: in the reverse mesh of the configuration, func is listed under dep
\* exactly when dep is in the dependency list of func; no key has an empty
\* list.
C10_ReverseMeshCorrect ==
    pc = "configured" =>
        /\ \A dep \in Names \cup DOMAIN reverseMesh :
           \A func \in Names \cup KeySet(mesh) :
              (dep \in DOMAIN reverseMesh /\ func \in Range(reverseMesh[dep]))
                 <=> (func \in KeySet(mesh)
                        /\ dep \in Range(ArgsOf(mesh, func)))
        /\ \A dep \in DOMAIN reverseMesh :
              /\ reverseMesh[dep] # <<>>
              /\ Range(reverseMesh[dep]) \subseteq KeySet(mesh)

\* a configuration was built from a mesh in which one variable is a
\* dependency of two entries and another entry has no dependency at all
C10_Witness ==
    /\ pc = "configured"
    /\ \E dep \in DOMAIN reverseMesh : Cardinality(Range(reverseMesh[dep])) >= 2
    /\ \E i \in 1..Len(mesh) : mesh[i].args = <<>>
    /\ \E x \in Names : x \notin DOMAIN reverseMesh

\* the mesh is the cycle a = b + 1, b = a + 1
PlusOneCycle ==
    \E a \in KeySet(mesh), b \in KeySet(mesh) :
        /\ TwoCycle(a, b)
        /\ HasFunction(functions, a) /\ functions[a] = "inc"
        /\ HasFunction(functions, b) /\ functions[b] = "inc"

\* every round that has run to its end changed a value, and a call that
\* has returned ran 50 rounds
OscillatesToCap ==
    /\ (pc = "loop" /\ pos > Len(mesh)) => anyChange
    /\ pc = "returned" => (rounds = 50 /\ anyChange)

ReverseDeclared ==
    \A i \in 1..Len(mesh) : mesh[i].name = VarName(Len(mesh) + 1 - i)

\* a step of round iter + 1 writes nothing but the variable iter + 1 hops
\* from var_0
WritesOneHop ==
    (pc = "loop" /\ newFormData' # newFormData)
        => (pos <= Len(mesh) /\ Keys(mesh)[pos] = VarName(iter + 1))

\* a first call that changed var_0 returned after one round per derived
\* variable and the round that found nothing to change, the chain updated
NeedsAllRounds ==
    (pc = "returned" /\ calls = 1
        /\ changedVariable = VarName(0)
        /\ Get(formData, VarName(0)) # newValue)
        => (rounds = Len(mesh) + 1 /\ ChainComposed(newFormData))

UnsatisfiedEquations(nfd) ==
    {f \in KeySet(mesh) : ~(Yields(nfd, f) /\ Reproduces(nfd, f))}

\* the derived variables whose computation is skipped on the state nfd: no
\* bound function, a throw, or no value returned
SkippedComputations(nfd) == {f \in KeySet(mesh) : ~Yields(nfd, f)}

\* C27: consistency on early exit.  When propagate has stopped because a
\* round produced no change, the only equations the returned state does
\* not satisfy are that of the changed variable and those of skipped
\* computations, and one more pass over the mesh would write nothing.
C27_ConsistentOnEarlyExit ==
    (pc = "returned" /\ ~anyChange) =>
        /\ UnsatisfiedEquations(newFormData)
              \subseteq {changedVariable} \cup SkippedComputations(newFormData)
        /\ \A f \in KeySet(mesh) :
              Body(newFormData, FALSE, f, changedVariable).nfd = newFormData

\* an edit of a derived variable stopped early: its own equation is left
\* unsatisfied, and the variable computed from it satisfies its equation
\* with a value the call wrote
C27_Witness ==
    /\ pc = "returned"
    /\ ~anyChange
    /\ rounds < 50
    /\ changedVariable \in KeySet(mesh)
    /\ Yields(newFormData, changedVariable)
    /\ changedVariable \in UnsatisfiedEquations(newFormData)
    /\ \E f \in KeySet(mesh) \ {changedVariable} :
          /\ changedVariable \in Range(ArgsOf(mesh, f))
          /\ f \notin UnsatisfiedEquations(newFormData)
          /\ Get(newFormData, f) # Get(formData, f)

\* the inner loop is at a key that has no bound function, or whose
\* computation returns no value
SkipsNow ==
    /\ pc = "loop"
    /\ pos <= Len(mesh)
    /\ \/ ~HasFunction(functions, Keys(mesh)[pos])
       \/ Outcome(newFormData, Keys(mesh)[pos]) = Returned(Undefined)

\* C24: no-op results are skipped.  At a key without a bound function, or
\* whose computation returns undefined, the step leaves the state (the
\* variable's value, or its absence) and the round's change flag as they
\* are and moves on to the next key of the same round; every round runs the
\* body for all keys.
C24_NoOpSkipped ==
    /\ [][SkipsNow =>
            /\ pc' = "loop"
            /\ pos' = pos + 1
            /\ newFormData' = newFormData
            /\ anyChange' = anyChange
            /\ iter' = iter
            /\ visited' = Append(visited, Keys(mesh)[pos])]_vars
    /\ []((pc = "loop" /\ pos > Len(mesh)) => visited = Keys(mesh))

\* the first key returned no value and kept the value it had, or had no
\* function at all, and the key declared after it was still recomputed
C24_Witness ==
    /\ pc = "returned"
    /\ Len(mesh) = 2
    /\ \/ ~HasFunction(functions, Keys(mesh)[1])
       \/ Outcome(newFormData, Keys(mesh)[1]) = Returned(Undefined)
    /\ Keys(mesh)[1] # changedVariable
    /\ Keys(mesh)[1] \in DOMAIN formData
    /\ newFormData[Keys(mesh)[1]] = formData[Keys(mesh)[1]]
    /\ Yields(newFormData, Keys(mesh)[2])
    /\ Get(newFormData, Keys(mesh)[2]) # Get(formData, Keys(mesh)[2])

ListedBy(m, dep) ==
    LET lists(func) == dep \in Range(ArgsOf(m, func))
    IN SelectSeq(Keys(m), lists)

\* C25: for every variable dep, reverse[dep] is the sequence of the
\* forward-mesh keys whose dependency list contains dep, in the order
\* their entries were declared, each key once; a variable no entry lists
\* has no reverse entry.
C25_ReverseInDeclarationOrder ==
    pc = "configured" =>
        \A dep \in Names \cup DOMAIN reverseMesh :
            IF dep \in DOMAIN reverseMesh
            THEN reverseMesh[dep] = ListedBy(mesh, dep)
            ELSE ListedBy(mesh, dep) = <<>>

\* the same for meshes in which no dependency list names a variable twice
ReverseOrderWithoutRepeats ==
    (pc = "configured"
        /\ \A i \in 1..Len(mesh) :
              Cardinality(Range(mesh[i].args)) = Len(mesh[i].args)) =>
        \A dep \in Names \cup DOMAIN reverseMesh :
            IF dep \in DOMAIN reverseMesh
            THEN reverseMesh[dep] = ListedBy(mesh, dep)
            ELSE ListedBy(mesh, dep) = <<>>

\* what propagate returns for the same edit of the same state when the
\* entries of the chain are declared in the given order
ReturnedFor(order) ==
    PropagateOf(ChainMesh(order, Len(mesh)), functions, changedVariable,
                newValue, formData).nfd

\* C28: declaration-order independence.  For a chain of fewer than 50
\* derived variables (an acyclic mesh with deterministic, defined,
\* non-throwing computations), the state propagate returns for an edit of
\* the input variable is the state it returns for the same edit under
\* every other declaration order of the entries.
C28_OrderIndependent ==
    (pc = "returned" /\ Len(mesh) < 50
        /\ changedVariable \notin KeySet(mesh)) =>
        \A order \in Orders : ReturnedFor(order) = newFormData

\* the same without the bound on the length of the chain
OrderIndependentAnyLength ==
    (pc = "returned" /\ changedVariable \notin KeySet(mesh)) =>
        \A order \in Orders : ReturnedFor(order) = newFormData

\* a chain of 49 derived variables declared against its dependencies took
\* all 50 rounds and returned what the other orders return in fewer
C28_Witness ==
    /\ pc = "returned"
    /\ Len(mesh) = 49
    /\ rounds = 50
    /\ changedVariable = VarName(0)
    /\ PropagateOf(ChainMesh("forward", 49), functions, changedVariable,
                   newValue, formData).rounds < 50
    /\ ReturnedFor("forward") = newFormData
    /\ Get(newFormData, VarName(49)).t = "number"

\* the field the event edited: the one whose value in the event's formData
\* is not the value that was displayed
Edited(x) == x \in DOMAIN formData' /\ formData'[x] # Get(Displayed, x)

\* the state last passed to renderForm holds the edited value of x
EditKept(x) == Get(currentFormData', x) = formData'[x]

\* in the state last passed to renderForm every variable computed from x
\* holds the value its computation yields
DependentsDerived(x) ==
    \A f \in KeySet(mesh) \ {x} :
        (x \in Range(ArgsOf(mesh, f)) /\ Yields(currentFormData', f))
            => Reproduces(currentFormData', f)

\* C21: when the onChange handler has processed an edit of a variable and
\* has rendered, the state it rendered last holds the edited value of that
\* variable, and every variable computed from it holds the value of its
\* computation.
C21_EditRendered ==
    [][(pc' = "handled" /\ renders' > 0) =>
          \A x \in Names : Edited(x) => (EditKept(x) /\ DependentsDerived(x))]_vars

\* the edit alone: the state rendered last holds the edited value
EditKeptWhenRendered ==
    [][(pc' = "handled" /\ renders' > 0) =>
          \A x \in Names : Edited(x) => EditKept(x)]_vars

\* the same for edits of variables that no computation produces
InputEditKept ==
    [][(pc' = "handled" /\ renders' > 0) =>
          \A x \in Names \ KeySet(mesh) : Edited(x) => EditKept(x)]_vars

\* the call run step by step returns what the call run as a whole returns
StepwiseAgrees ==
    pc = "returned" =>
        LET whole == PropagateOf(mesh, functions, changedVariable, newValue,
                                 formData)
        IN /\ whole.nfd = newFormData
           /\ whole.rounds = rounds
           /\ ~whole.raised

(***************************************************************************)
(* Properties of the generated configuration.                              *)
(***************************************************************************)
\* the variables the configuration declares
Declared == DOMAIN config.schema.properties

\* the UI hints of a variable; a variable without an entry has none
UiHints(v) ==
    IF v \in DOMAIN config.uiSchema THEN config.uiSchema[v] ELSE EmptyObject

\* the variable carries the read-only hint
ReadOnlyHint(v) ==
    "ui:readonly" \in DOMAIN UiHints(v) /\ UiHints(v)["ui:readonly"] = TRUE

\* C11: a variable with no explicit override and no readonly_ prefix
\* carries the read-only hint exactly when it is a key of the forward mesh,
\* has no explicit initial value and does not match the slider_/range_
\* prefix rule.
C11_ReadOnlyRule ==
    pc = "configured" =>
        \A v \in Declared :
            (v \notin DOMAIN field_overrides /\ ~StartsWith(v, "readonly_"))
                => (ReadOnlyHint(v)
                      <=> /\ v \in KeySet(mesh)
                          /\ v \notin DOMAIN initial_values
                          /\ ~StartsWith(v, "slider_")
                          /\ ~StartsWith(v, "range_"))

\* the override dict of a variable; a variable without one has none
OverrideOf(v) ==
    IF v \in DOMAIN field_overrides THEN field_overrides[v] ELSE EmptyObject

\* C12: every key of a variable's override is in the variable's schema with
\* the override's value, and every key that starts with "ui:" is in the
\* variable's UI hints with the override's value.
C12_OverridesWin ==
    pc = "configured" =>
        \A v \in DOMAIN field_overrides :
        \A k \in DOMAIN field_overrides[v] :
            /\ k \in DOMAIN config.schema.properties[v]
            /\ config.schema.properties[v][k] = field_overrides[v][k]
            /\ StartsWith(k, "ui:") =>
                  /\ k \in DOMAIN UiHints(v)
                  /\ UiHints(v)[k] = field_overrides[v][k]

\* an override replaced the inferred type, the widget of the name prefix
\* and the read-only hint of mesh membership, each with a different value
C12_Witness ==
    /\ pc = "configured"
    /\ \E v \in DOMAIN field_overrides :
          LET o == field_overrides[v]
              conv == ApplyUiConventions(mesh, initial_values, v)
          IN /\ {"type", "ui:widget", "ui:readonly"} \subseteq DOMAIN o
             /\ InferVariableSchema(initial_values, v)["type"] # o["type"]
             /\ {"ui:widget", "ui:readonly"} \subseteq DOMAIN conv
             /\ conv["ui:widget"] # o["ui:widget"]
             /\ conv["ui:readonly"] # o["ui:readonly"]
             /\ v \in KeySet(mesh)

\* the type the inference rule names for a value: boolean before integer,
\* array for a list, number for every other value
RuleType(value) ==
    CASE value.t = "bool" -> "boolean"
      [] value.t = "int" -> "integer"
      [] value.t = "float" -> "number"
      [] value.t = "str" -> "string"
      [] value.t = "list" -> "array"
      [] OTHER -> "number"

\* the variables whose inferred schema no override touches
Inferred == {v \in Declared : "type" \notin DOMAIN OverrideOf(v)}

\* the rule for everything but the items of a non-empty list
InferenceRule(v) ==
    LET schema == config.schema.properties[v] IN
    IF v \notin DOMAIN initial_values THEN schema["type"] = "number"
    ELSE LET value == initial_values[v] IN
         /\ schema["type"] = RuleType(value)
         /\ "items" \in DOMAIN schema <=> value.t = "list"
         /\ (value.t = "list" /\ value.items = <<>>)
               => schema["items"] = [type |-> "number"]

\* the lists among the initial values that have a first element
NonEmptyLists ==
    {v \in Inferred \cap DOMAIN initial_values :
        initial_values[v].t = "list" /\ initial_values[v].items # <<>>}

\* C13 as stated: the item type of a non-empty list is the type the same
\* rule names for its first element.
C13_Original ==
    /\ pc # "raised"
    /\ pc = "configured" =>
          /\ \A v \in Inferred : InferenceRule(v)
          /\ \A v \in NonEmptyLists :
                config.schema.properties[v]["items"]
                    = [type |-> RuleType(initial_values[v].items[1])]

\* C13: the inferred type is boolean for a bool (tested before int),
\* integer for an int, number for a float, string for a str, array for a
\* list, and number for a variable with no initial value or a value of any
\* other type.  The item type of a list is number when the list is empty;
\* otherwise it is boolean, integer, number or string for a first element
\* that is a bool, an int, a float or a str, and string for a first element
\* of any other type.  Inference never raises.
C13_InferenceMapping ==
    /\ pc # "raised"
    /\ pc = "configured" =>
          /\ \A v \in Inferred : InferenceRule(v)
          /\ \A v \in NonEmptyLists :
                LET first == initial_values[v].items[1] IN
                config.schema.properties[v]["items"]
                    = [type |-> IF first.t \in {"bool", "int", "float", "str"}
                                THEN RuleType(first) ELSE "string"]

\* a list whose first element is None got the item type string
C13_Witness ==
    /\ pc = "configured"
    /\ \E v \in NonEmptyLists :
          /\ initial_values[v].items[1].t = "NoneType"
          /\ config.schema.properties[v]
                = [type |-> "array", items |-> [type |-> "string"]]

\* the description an override gives the variable, if it gives one
DescriptionGiven(v) == "description" \in DOMAIN OverrideOf(v)

ConstraintKeys ==
    {"minimum", "maximum", "pattern", "minLength", "maxLength", "enum"}

\* the text of one kind of clause for a schema that has its constraint
ClauseText(schema, kind) ==
    CASE kind = "range" ->
            "Value must be between " \o ToString(schema["minimum"])
                \o " and " \o ToString(schema["maximum"])
      [] kind = "minimum" -> "Minimum value: " \o ToString(schema["minimum"])
      [] kind = "maximum" -> "Maximum value: " \o ToString(schema["maximum"])
      [] kind = "pattern" -> "Must match pattern: " \o schema["pattern"]
      [] kind = "minLength" ->
            "Minimum length: " \o ToString(schema["minLength"])
      [] kind = "maxLength" ->
            "Maximum length: " \o ToString(schema["maxLength"])
      [] kind = "enum" ->
            "Allowed values: " \o Join(Strs(schema["enum"]), ", ")

\* the kinds of clause in their fixed order
ClauseOrder ==
    <<"range", "minimum", "maximum", "pattern", "minLength", "maxLength",
      "enum">>

\* the kinds of clause a schema calls for; bounds says whether minimum and
\* maximum count for this schema
ClauseKinds(schema, bounds) ==
    LET has(k) == k \in DOMAIN schema
        due(kind) ==
            CASE kind = "range" -> bounds /\ has("minimum") /\ has("maximum")
              [] kind = "minimum" ->
                    bounds /\ has("minimum") /\ ~has("maximum")
              [] kind = "maximum" ->
                    bounds /\ has("maximum") /\ ~has("minimum")
              [] OTHER -> has(kind)
    IN SelectSeq(ClauseOrder, due)

\* the description of schema is the one synthesized from its constraints:
\* present exactly when a clause is due, and then the clauses joined
Synthesized(schema, bounds) ==
    LET kinds == ClauseKinds(schema, bounds) IN
    /\ "description" \in DOMAIN schema <=> kinds # <<>>
    /\ kinds # <<>> =>
          schema["description"]
              = Join([i \in 1..Len(kinds) |-> ClauseText(schema, kinds[i])],
                     "; ")

\* C14 as stated: minimum and maximum count for every schema.
C14_Original ==
    pc = "configured" =>
        \A v \in Declared :
            LET schema == config.schema.properties[v] IN
            IF DescriptionGiven(v)
            THEN schema["description"] = OverrideOf(v)["description"]
            ELSE Synthesized(schema, TRUE)

\* C14: after overrides are merged, a description given by the override is
\* kept as it is.  Without one, the schema gets a synthesized description
\* exactly when a clause is due: the range clause (both bounds), else the
\* minimum clause, else the maximum clause, these three only when the
\* merged type is number or integer; then pattern, minLength, maxLength,
\* enum.  The description is the due clauses in this order joined by "; ".
C14_DescriptionSynthesis ==
    pc = "configured" =>
        \A v \in Declared :
            LET schema == config.schema.properties[v] IN
            IF DescriptionGiven(v)
            THEN schema["description"] = OverrideOf(v)["description"]
            ELSE Synthesized(schema, schema["type"] \in {"number", "integer"})

\* a description of five clauses was synthesized for an integer variable
\* that has every constraint
C14_Witness ==
    /\ pc = "configured"
    /\ \E v \in Declared :
          /\ ~DescriptionGiven(v)
          /\ config.schema.properties[v]["type"] = "integer"
          /\ ConstraintKeys \subseteq DOMAIN config.schema.properties[v]
          /\ config.schema.properties[v]["description"]
                = "Value must be between 1 and 10; "
                    \o "Must match pattern: ^[A-Z]+$; Minimum length: 2; "
                    \o "Maximum length: 5; Allowed values: 1, 2"

\* the convention prefixes the name starts with
MatchingPrefixes(v) ==
    {p \in Prefixes :
        Len(v) >= Len(p) /\ \A i \in 1..Len(p) : SubSeq(v, i, i) = SubSeq(p, i, i)}

\* the prefix table: the hints of each convention prefix
TableHints(p) ==
    CASE p \in {"slider_", "range_"} ->
            ("ui:widget" :> "range") @@ ("minimum" :> 0) @@ ("maximum" :> 100)
      [] p = "readonly_" -> ("ui:readonly" :> TRUE)
      [] p = "datetime_" -> ("ui:widget" :> "datetime-local")
      [] p = "number_" -> ("ui:widget" :> "updown")
      [] p \in {"list_", "array_"} ->
            ("ui:options" :>
                [addable |-> TRUE, removable |-> TRUE, orderable |-> TRUE])
      [] p = "tags_" ->
            ("ui:options" :> [addable |-> TRUE, removable |-> TRUE])
      [] OTHER -> ("ui:widget" :> SubSeq(p, 1, Len(p) - 1))

\* the hints the table gives a name
NameHints(v) ==
    IF MatchingPrefixes(v) = {} THEN EmptyObject
    ELSE TableHints(CHOOSE p \in MatchingPrefixes(v) : TRUE)

\* the read-only hint of v comes from mesh membership
ReadOnlyByMembership(v) ==
    v \in KeySet(mesh) /\ v \notin DOMAIN initial_values

\* C15: every name matches at most one convention prefix, and the UI hints
\* of a variable without an override are the hints the table gives its
\* prefix, none for a name that matches no prefix; the read-only hint of
\* mesh membership aside.
C15_PrefixTable ==
    pc = "configured" =>
        \A v \in Declared :
            /\ Cardinality(MatchingPrefixes(v)) <= 1
            /\ v \notin DOMAIN field_overrides =>
                  IF ReadOnlyByMembership(v)
                  THEN \A k \in (DOMAIN UiHints(v) \cup DOMAIN NameHints(v))
                                    \ {"ui:readonly"} :
                          /\ k \in DOMAIN UiHints(v) \cap DOMAIN NameHints(v)
                          /\ UiHints(v)[k] = NameHints(v)[k]
                  ELSE UiHints(v) = NameHints(v)

\* a datetime_ name got the datetime-local widget and nothing else
C15_Witness ==
    /\ pc = "configured"
    /\ "datetime_x" \in Declared \ DOMAIN field_overrides
    /\ ~ReadOnlyByMembership("datetime_x")
    /\ UiHints("datetime_x") = ("ui:widget" :> "datetime-local")

\* every name in a dependency list of the mesh
Dependencies(m) == UNION {Range(m[i].args) : i \in 1..Len(m)}

\* C16: the keys of schema.properties are the forward-mesh keys, the names
\* in the dependency lists, the initial_values keys and the field_overrides
\* keys; a variable with no initial value and no override, a dependency
\* without computation among them, is declared with type number.
C16_EveryVariableDeclared ==
    pc = "configured" =>
        /\ Declared = KeySet(mesh) \cup Dependencies(mesh)
                         \cup DOMAIN initial_values \cup DOMAIN field_overrides
        /\ \A v \in Declared \ (DOMAIN initial_values \cup DOMAIN field_overrides) :
              config.schema.properties[v] = [type |-> "number"]

\* a dependency that is no key, has no initial value and no override is
\* declared, next to a variable that only field_overrides names
C16_Witness ==
    /\ pc = "configured"
    /\ \E v \in Dependencies(mesh) :
          /\ v \notin KeySet(mesh) \cup DOMAIN initial_values
                        \cup DOMAIN field_overrides
          /\ v \in Declared
    /\ \E v \in DOMAIN field_overrides :
          v \notin KeySet(mesh) \cup Dependencies(mesh) \cup DOMAIN initial_values

\* the mesh has a dependency cycle among its keys of length one or two
Cyclic(m) ==
    \E x \in KeySet(m), y \in KeySet(m) :
        y \in Range(ArgsOf(m, x)) /\ x \in Range(ArgsOf(m, y))

\* the forward mesh stands in the configuration as it was given
MeshVerbatim ==
    /\ config.mesh = mesh_spec.entries
    /\ config.propagation_rules.mesh = mesh_spec.entries

\* C17 as stated: nothing but a specification that is no dict is rejected.
C17_Original ==
    /\ [](pc = "raised" => mesh_spec.t # "dict")
    /\ [](pc = "configured" => MeshVerbatim)
    /\ [][(pc = "constructing" /\ mesh_spec.t # "dict") => pc' = "raised"]_vars

\* C17: construction rejects a mesh specification exactly when it is no
\* dict.  generate_config completes for every dict mesh whose dependency
\* values can be iterated, cyclic meshes, dependencies without an initial
\* value and keys without a function included, and the configuration holds
\* the forward mesh as given; it raises only for a mesh with a dependency
\* value that cannot be iterated.
C17_PermissiveBuild ==
    /\ [][pc = "constructing" =>
            pc' = IF mesh_spec.t = "dict" THEN "new" ELSE "raised"]_vars
    /\ [][pc = "new" =>
            pc' = IF \A i \in 1..Len(mesh) : mesh[i].type \in {"list", "tuple"}
                  THEN "configured" ELSE "raised"]_vars
    /\ [](pc \in {"constructing", "new"}
            => ENABLED (PostInit \/ GenerateConfig))
    /\ [](pc = "configured" => MeshVerbatim)

\* a configuration was built from a cyclic mesh with a key that has no
\* function and a dependency that has neither value nor computation
C17_Witness ==
    /\ pc = "configured"
    /\ Cyclic(mesh)
    /\ KeySet(mesh) \ DOMAIN functions_spec.entries # {}
    /\ Dependencies(mesh) \ (KeySet(mesh) \cup DOMAIN initial_values) # {}

(***************************************************************************)
(* Properties of the validation utilities.                                 *)
(***************************************************************************)
\* both specifications are dicts
DictArguments == mesh_spec.t = "dict" /\ functions_spec.t = "dict"

\* the four conditions of a valid specification
WellFormed ==
    /\ DictArguments
    /\ \A i \in 1..Len(mesh_spec.entries) :
          LET entry == mesh_spec.entries[i] IN
          /\ entry.name \in DOMAIN functions_spec.entries
          /\ entry.type = "list"
          /\ Range(entry.args)
                \subseteq DOMAIN initial_values \cup KeySet(mesh_spec.entries)
    /\ DOMAIN functions_spec.entries
          \subseteq KeySet(mesh_spec.entries) \cup DOMAIN initial_values

\* the number of messages of a kind in the error list
Messages(kind) ==
    Cardinality({i \in 1..Len(errors) : errors[i].kind = kind})

\* the number of places in the dependency values that name a variable
\* outside the initial values and the mesh
UndefinedPlaces ==
    Cardinality(
        {<<i, j>> \in (1..Len(mesh_spec.entries)) \X (1..MaxArgs + 1) :
            /\ j <= Len(mesh_spec.entries[i].args)
            /\ mesh_spec.entries[i].args[j]
                  \notin DOMAIN initial_values \cup KeySet(mesh_spec.entries)})

\* what a returned result says: valid exactly with no message and exactly
\* for a well-formed specification, and one message per violation
ResultFaithful ==
    /\ is_valid <=> errors = <<>>
    /\ is_valid <=> WellFormed
    /\ ~DictArguments => Len(errors) = 1
    /\ DictArguments =>
          /\ Messages("no implementation")
                = Cardinality(KeySet(mesh_spec.entries)
                                \ DOMAIN functions_spec.entries)
          /\ Messages("must be a list")
                = Cardinality({i \in 1..Len(mesh_spec.entries) :
                                  mesh_spec.entries[i].type # "list"})
          /\ Messages("undefined variable") = UndefinedPlaces
          /\ Messages("never used")
                = Cardinality(DOMAIN functions_spec.entries
                                \ (KeySet(mesh_spec.entries)
                                     \cup DOMAIN initial_values))
          /\ Len(errors)
                = Messages("no implementation") + Messages("must be a list")
                    + Messages("undefined variable") + Messages("never used")

\* C18: validate_mesh_spec returns for every input; it returns is_valid =
\* true with an empty error list exactly when every mesh key has an entry
\* in functions_spec, every dependency value is a list, every dependency
\* name is a key of initial_values or of the mesh and every functions_spec
\* key is a key of the mesh or of initial_values; otherwise it returns
\* false with one message per violation.
C18_ValidationVerdict ==
    /\ pc # "raised"
    /\ pc = "validated" => ResultFaithful

\* what holds of the results that are returned
ReturnedFaithful == pc = "validated" => ResultFaithful

\* x depends on y and both are computed variables
Edge(m, x, y) ==
    x \in KeySet(m) /\ y \in KeySet(m) /\ y \in Range(ArgsOf(m, x))

\* chain starts and ends with the same variable and follows edges
ClosedChain(m, chain) ==
    /\ Len(chain) >= 2
    /\ chain[1] = chain[Len(chain)]
    /\ \A i \in 1..(Len(chain) - 1) : Edge(m, chain[i], chain[i + 1])

\* the computed variables reachable from x along at least one edge
ReachableFrom(m, x) ==
    LET Step[n \in 1..Len(m)] ==
            IF n = 1 THEN {y \in KeySet(m) : Edge(m, x, y)}
            ELSE Step[n - 1]
                    \cup {y \in KeySet(m) :
                            \E z \in Step[n - 1] : Edge(m, z, y)}
    IN IF Len(m) = 0 THEN {} ELSE Step[Len(m)]

\* the dependency graph restricted to computed variables has a cycle
HasCycle(m) == \E x \in KeySet(m) : x \in ReachableFrom(m, x)

\* the number of places in the dependency lists of the mesh
Places(m) ==
    Cardinality({<<i, j>> \in (1..Len(m)) \X (1..MaxArgs + 1) :
                    j <= Len(m[i].args)})

\* C19: detect_circular_dependencies returns, after at most one call of
\* dfs per key and per key and place of a dependency list; the list it
\* returns is non-empty exactly when the dependency graph restricted to
\* computed variables has a directed cycle, a self-dependency included, and
\* every chain in it starts and ends with the same variable and follows
\* dependency edges.
C19_CycleDetection ==
    /\ [][pc = "new" => pc' \in {"detected", "ordered"}]_vars
    /\ [](pc = "detected" =>
            /\ dfs_calls <= Len(mesh) * (1 + Places(mesh))
            /\ cycles # <<>> <=> HasCycle(mesh)
            /\ \A i \in 1..Len(cycles) : ClosedChain(mesh, cycles[i]))

\* a cycle of three variables was reported once from each of its variables
C19_Witness ==
    /\ pc = "detected"
    /\ <<"a", "b", "c", "a">> \in Range(cycles)
    /\ Len(cycles) = 3

\* the computed variables among the dependencies of a mesh key
ComputedDependencies(m, x) == {y \in KeySet(m) : Edge(m, x, y)}

\* the levels that hold x
LevelsOf(x) == {i \in 1..Len(levels) : x \in Range(levels[i])}

\* C20: for an acyclic mesh every forward-mesh key is in exactly one level,
\* once; the first level holds the variables with no computed dependency,
\* and every computed dependency of a variable is in a strictly earlier
\* level than the variable.
C20_ExecutionOrder ==
    (pc = "ordered" /\ ~HasCycle(mesh)) =>
        /\ \A x \in KeySet(mesh) :
              /\ Cardinality(LevelsOf(x)) = 1
              /\ \A i \in LevelsOf(x) : Count(levels[i], x) = 1
        /\ Len(mesh) > 0 =>
              Range(levels[1])
                  = {x \in KeySet(mesh) : ComputedDependencies(mesh, x) = {}}
        /\ \A x \in KeySet(mesh) :
           \A y \in ComputedDependencies(mesh, x) :
           \A i \in LevelsOf(x) :
              \E j \in LevelsOf(y) : j < i
\* the entries of m declared in another order
Permuted(m, perm) == [i \in 1..Len(m) |-> m[perm[i]]]

\* declaration-order independence on the small acyclic meshes: two derived
\* variables side by side or in a row, every computation an increment or
\* a negation
OrderIndependentSmall ==
    (pc = "returned" /\ ~HasCycle(mesh)
        /\ changedVariable \notin KeySet(mesh)
        /\ \A f \in KeySet(mesh) :
              HasFunction(functions, f) /\ functions[f] \in {"inc", "neg"}) =>
        \A perm \in Orderings(1..Len(mesh)) :
            PropagateOf(Permuted(mesh, perm), functions, changedVariable,
                        newValue, formData).nfd = newFormData

\* the arguments of validate_mesh are dicts whose dependency values iterate
Checkable ==
    /\ mesh_spec.t = "dict"
    /\ functions_spec.t = "dict"
    /\ \A i \in 1..Len(mesh_spec.entries) : Iterable(mesh_spec.entries[i])

\* validate_mesh has reported a circular dependency and refused the mesh
CycleReported ==
    /\ pc \in {"rejected", "ValueError"}
    /\ \E i \in 1..Len(errors) :
          errors[i].kind = "Circular dependencies detected"

\* C26: when validate_mesh has ended on a mesh with a circular dependency
\* among its computed variables, its report holds a circular-dependency
\* message and it has returned False or raised ValueError, whether or not
\* the mesh has another structural error.
C26_CyclesReported ==
    (pc \notin {"constructing"} /\ Checkable /\ HasCycle(mesh_spec.entries))
        => CycleReported

\* the same for meshes that have another structural error
CyclesReportedAmongErrors ==
    (pc \notin {"constructing"} /\ Checkable /\ HasCycle(mesh_spec.entries)
        /\ \E func_names \in Orderings(DOMAIN functions_spec.entries) :
              ValidationErrors(mesh_spec.entries, functions_spec.entries,
                               func_names, initial_values) # <<>>)
        => CycleReported

\* every key of the mesh has a compiled function and every dependency has a
\* value
Testable ==
    /\ KeySet(mesh) \subseteq DOMAIN CompileFunctions(functions)
    /\ \A i \in 1..Len(mesh) : Range(mesh[i].args) \subseteq DOMAIN initial_values

\* the two engines have run the same edit of an input variable
Compared == pc = "compared" /\ changedVariable \notin KeySet(mesh)

\* both engines assign the same value to every derived variable
SameDerived ==
    \A f \in KeySet(mesh) :
        /\ f \in DOMAIN computed
        /\ f \in DOMAIN newFormData
        /\ computed[f] = newFormData[f]

\* C29: after propagate(v, x, initial_values) and MeshTester.compute({v: x})
\* for an input variable v, on a mesh whose keys all have a compiled
\* function and whose dependencies all have values, every derived variable
\* has the same value in both results, and both made at most 50 passes.
C29_TesterMirrorsEngine ==
    (Compared /\ Testable) =>
        (SameDerived /\ rounds <= 50 /\ passes <= 50)

\* the same for meshes whose bodies are sums and products
MirrorsOnArithmetic ==
    (Compared /\ Testable
        /\ \A f \in DOMAIN functions : functions[f] \in {"inc", "neg"})
        => (SameDerived /\ rounds <= 50 /\ passes <= 50)

====
